---- MODULE Spec2Model ----
(***************************************************************************)
(* Ledger consistency and cash-flow forecasting engine of the cash_flow    *)
(* application (src/app.py).                                               *)
(*                                                                         *)
(* The store is the SQLite database finance_data.db: four tables keyed by  *)
(* AUTOINCREMENT ids.  Money columns are REAL (IEEE-754 binary floating    *)
(* point); the model keeps the rounding of every arithmetic result, at a   *)
(* mantissa of MantBits bits instead of 53, values being counted in units  *)
(* of the smallest representable step.                                     *)
(***************************************************************************)
EXTENDS Integers, Sequences, FiniteSets, TLC

(* ------------------------------ bounds --------------------------------- *)

\* Width of the floating-point mantissa kept by the model (53 in the code).
MantBits == 10
\* Largest number of actual transactions ever inserted in a run of the ledger
\* (SpecReconcile) and of the concurrent sessions (SpecSessions).
LedgerTxns == 2
SessionTxns == 1
\* Largest number of actual transactions ever inserted in a run of the update
\* form (SpecUpdate).
UpdateTxns == 2

\* SQL NULL in an integer column (ids start at 1).
NULL == 0

(* ------------------------ floating-point arithmetic -------------------- *)

RECURSIVE Pow2(_)
Pow2(n) == IF n = 0 THEN 1 ELSE 2 * Pow2(n - 1)

Abs(x) == IF x < 0 THEN -x ELSE x

\* Nearest integer to n/d (d > 0), ties to the even integer.
RoundDiv(n, d) ==
    LET f == n \div d
        r == n - f * d
    IN  IF 2 * r < d THEN f
        ELSE IF 2 * r > d THEN f + 1
        ELSE IF f % 2 = 0 THEN f ELSE f + 1

\* The first magnitude that no longer fits the mantissa.
MantLimit == Pow2(MantBits)

\* The spacing of representable values around |p/q|: the least power of two
\* Q >= 1 such that |p/q| / Q needs at most MantBits bits.
RECURSIVE Quantum(_, _, _)
Quantum(absP, q, Q) ==
    IF absP < MantLimit * q * Q THEN Q ELSE Quantum(absP, q, 2 * Q)

\* The representable value nearest to the rational p/q (round-to-nearest-even).
FlQ(p, q) ==
    LET Q == Quantum(Abs(p), q, 1)
    IN  RoundDiv(p, q * Q) * Q

\* The stored result of an arithmetic operation whose exact result is x.
Fl(x) == FlQ(x, 1)

(* ------------------------------- the store ----------------------------- *)

VARIABLES
    bank_accounts,           \* id -> [balance, inexact]
    credit_cards,            \* id -> [current_balance, statement_balance, credit_limit, inexact]
    recurring_transactions,  \* id -> [amount, type, frequency, start_date, end_date,
                             \*        account_id, credit_card_id, is_active]
    actual_transactions,     \* id -> [amount, type, account_id, credit_card_id]
    sqlite_sequence,         \* table -> last id handed out (AUTOINCREMENT)
    conn,                    \* the connection of an update in progress, or idle
    opening,                 \* history: the balance each account/card was created with
    last,                    \* history: the last operation that completed
    forecast,                \* the clock and what the "Balance Forecast" tab shows
    spending,                \* what the "Expected vs. Actual Spending" tab shows
    selection                \* the transactions a script run fetched for its select box

vars == <<bank_accounts, credit_cards, recurring_transactions, actual_transactions,
          sqlite_sequence, conn, opening, last, forecast, spending, selection>>

\* `inexact` is a history field, not a column: some arithmetic on the stored
\* balance had a result that was not representable and was rounded.

Empty == <<>>

\* A calendar date; NoDate is SQL NULL in a DATE column.
Date(y, m, d) == [y |-> y, m |-> m, d |-> d]
NoDate == Date(0, 0, 0)

\* The committed money columns, as one value.
Money(accts, cards) == [bank_accounts |-> accts, credit_cards |-> cards]

\* The balances held in the money columns db.
BalancesOf(db) ==
    [acct |-> [a \in DOMAIN db.bank_accounts |-> db.bank_accounts[a].balance],
     card |-> [c \in DOMAIN db.credit_cards |-> db.credit_cards[c].current_balance]]

\* What a reader of the committed store sees of the balances.
Balances == BalancesOf(Money(bank_accounts, credit_cards))

\* A remembered view of the balances, for the history variable.
NoSnap == [valid |-> FALSE, db |-> Money(Empty, Empty)]
Snap == [valid |-> TRUE, db |-> Money(bank_accounts, credit_cards)]

\* No row: the history variable's filler.
NoRow == [amount |-> 0, type |-> "", account_id |-> 0, credit_card_id |-> 0]

Idle == [pc |-> "idle"]

\* The "Balance Forecast" tab before it has been opened, on the day `today`.
NoForecast(today) ==
    [today |-> today, shown |-> FALSE, forecast_months |-> 0,
     forecast_dates |-> <<>>, forecast_balances |-> <<>>, outlook |-> "none"]

\* The "Expected vs. Actual Spending" tab before it has been opened.
NoSpending ==
    [status |-> "none", month_year |-> [y |-> 0, m |-> 0, d |-> 0], category_filter |-> "",
     monthly_amount |-> <<>>, expected_total |-> 0, actual_total |-> 0,
     difference |-> 0, percent_diff |-> 0, merged_categories |-> <<>>]

\* f with key k bound to v (INSERT) and f without key k (DELETE).
\* No script run is between its SELECT and its button; `runs` counts the runs
\* that got there.
NoSelection == [pc |-> "none", transactions |-> <<>>, runs |-> 0]

Insert(f, k, v) == [x \in DOMAIN f \cup {k} |-> IF x = k THEN v ELSE f[x]]
Delete(f, k) == [x \in DOMAIN f \ {k} |-> f[x]]

init_db ==
    /\ bank_accounts = Empty
    /\ credit_cards = Empty
    /\ recurring_transactions = Empty
    /\ actual_transactions = Empty
    /\ sqlite_sequence = [bank_accounts |-> 0, credit_cards |-> 0,
                          recurring_transactions |-> 0, actual_transactions |-> 0]
    /\ conn = Idle
    /\ opening = [acct |-> Empty, card |-> Empty]
    /\ last = [op |-> "init", id |-> 0, pre |-> NoSnap, undone |-> NoSnap, row |-> NoRow]
    /\ forecast = NoForecast(Date(2024, 1, 15))
    /\ spending = NoSpending
    /\ selection = NoSelection

Init == init_db

\* The completed operation, for the history variable.
Did(op, id) == [op |-> op, id |-> id, pre |-> NoSnap, undone |-> NoSnap, row |-> NoRow]

(* --------------------------- SQL UPDATE statements --------------------- *)

\* UPDATE bank_accounts SET balance = balance + delta WHERE id = ?
\* (balance - ? is the same operation with the sign of the operand flipped).
AcctPlus(accts, id, delta) ==
    IF id \in DOMAIN accts
    THEN LET exact == accts[id].balance + delta
             stored == Fl(exact)
         IN  [accts EXCEPT ![id] =
                [balance |-> stored, inexact |-> @.inexact \/ stored # exact]]
    ELSE accts

\* UPDATE credit_cards SET current_balance = current_balance + delta WHERE id = ?
CardPlus(cards, id, delta) ==
    IF id \in DOMAIN cards
    THEN LET exact == cards[id].current_balance + delta
             stored == Fl(exact)
         IN  [cards EXCEPT ![id] =
                [@ EXCEPT !.current_balance = stored,
                          !.inexact = @ \/ stored # exact]]
    ELSE cards

(* ------------------------------ form inputs ---------------------------- *)

\* st.number_input(min_value=0.01): the smallest amount a form lets through.
MinAmount == 1

\* Amounts a user may type into an amount field (0 is below min_value).
AmountsTyped == {0, 2, 200}
\* Balances a user may type when adding an account or card (min_value=0.0).
OpeningBalances == {1023}
\* Balances a user may type in an update form (no min_value).
BalancesTyped == {-5}
TransactionTypes == {"income", "expense"}
PaymentMethods == {"Bank Account", "Credit Card", "Other"}

\* The options of the "Select Bank Account" / "Select Credit Card" boxes.
bank_account_options == DOMAIN bank_accounts \cup {NULL}
credit_card_options == DOMAIN credit_cards \cup {NULL}

\* The form keeps both selections, whatever the payment method.
AddPaymentLinkKeepsBoth(payment_method, selected_account, selected_card) ==
    [account_id |-> selected_account, credit_card_id |-> selected_card]

\* The payment-method branch of the "Add Transaction" form.
AddPaymentLink(payment_method, selected_account, selected_card) ==
    IF payment_method = "Bank Account"
    THEN [account_id |-> selected_account, credit_card_id |-> NULL]
    ELSE IF payment_method = "Credit Card"
    THEN [account_id |-> NULL, credit_card_id |-> selected_card]
    ELSE [account_id |-> NULL, credit_card_id |-> NULL]

\* The payment-method branch of the "Update Transaction" form.
UpdatePaymentLink(payment_method, selected_account, selected_card) ==
    IF payment_method = "Bank Account"
    THEN [account_id |-> selected_account, credit_card_id |-> NULL]
    ELSE IF payment_method = "Credit Card"
    THEN [account_id |-> NULL, credit_card_id |-> selected_card]
    ELSE [account_id |-> NULL, credit_card_id |-> NULL]

\* The payment-method branch of the "Import Transactions" form.
ImportPaymentLink(payment_method, selected_account, selected_card) ==
    IF payment_method = "Bank Account"
    THEN [account_id |-> selected_account, credit_card_id |-> NULL]
    ELSE IF payment_method = "Credit Card"
    THEN [account_id |-> NULL, credit_card_id |-> selected_card]
    ELSE [account_id |-> NULL, credit_card_id |-> NULL]

\* The payment-method branch of the recurring-transaction forms (add, update).
RulePaymentLink(payment_method, selected_account, selected_card) ==
    IF payment_method = "Bank Account"
    THEN [account_id |-> selected_account, credit_card_id |-> NULL]
    ELSE IF payment_method = "Credit Card"
    THEN [account_id |-> NULL, credit_card_id |-> selected_card]
    ELSE [account_id |-> NULL, credit_card_id |-> NULL]

\* An actual_transactions row.
Txn(amount, type, link) ==
    [amount |-> amount, type |-> type,
     account_id |-> link.account_id, credit_card_id |-> link.credit_card_id]

(* ----------------------- the balance effect of a row ------------------- *)

\* An expense is not booked on an account that holds less than 1000.
AddApplyIfCovered(db, t) ==
    LET d1 == IF t.type = "expense" /\ t.credit_card_id # NULL
              THEN [db EXCEPT !.credit_cards = CardPlus(@, t.credit_card_id, t.amount)]
              ELSE db
        d2 == IF /\ t.type = "expense" /\ t.account_id # NULL
                 /\ db.bank_accounts[t.account_id].balance >= 1000
              THEN [d1 EXCEPT !.bank_accounts = AcctPlus(@, t.account_id, -t.amount)]
              ELSE d1
        d3 == IF t.type = "income" /\ t.account_id # NULL
              THEN [d2 EXCEPT !.bank_accounts = AcctPlus(@, t.account_id, t.amount)]
              ELSE d2
    IN  d3

\* A card expense is booked on the statement balance as well, and an account
\* expense on every account.
AddApplyWide(db, t) ==
    LET d1 == IF t.type = "expense" /\ t.credit_card_id # NULL
              THEN [db EXCEPT !.credit_cards =
                      [CardPlus(@, t.credit_card_id, t.amount)
                          EXCEPT ![t.credit_card_id].statement_balance = @ + t.amount]]
              ELSE db
        d2 == IF t.type = "expense" /\ t.account_id # NULL
              THEN [d1 EXCEPT !.bank_accounts =
                      [a \in DOMAIN @ |-> AcctPlus(@, a, -t.amount)[a]]]
              ELSE d1
        d3 == IF t.type = "income" /\ t.account_id # NULL
              THEN [d2 EXCEPT !.bank_accounts = AcctPlus(@, t.account_id, t.amount)]
              ELSE d2
    IN  d3

\* "Add Transaction": the three balance updates after the INSERT.
AddApply(db, t) ==
    LET d1 == IF t.type = "expense" /\ t.credit_card_id # NULL
              THEN [db EXCEPT !.credit_cards = CardPlus(@, t.credit_card_id, t.amount)]
              ELSE db
        d2 == IF t.type = "expense" /\ t.account_id # NULL
              THEN [d1 EXCEPT !.bank_accounts = AcctPlus(@, t.account_id, -t.amount)]
              ELSE d1
        d3 == IF t.type = "income" /\ t.account_id # NULL
              THEN [d2 EXCEPT !.bank_accounts = AcctPlus(@, t.account_id, t.amount)]
              ELSE d2
    IN  d3

\* The reversal of a card expense adds the amount once more.
DeleteReverseCardAdds(db, t) ==
    LET d1 == IF t.type = "expense" /\ t.credit_card_id # NULL
              THEN [db EXCEPT !.credit_cards = CardPlus(@, t.credit_card_id, t.amount)]
              ELSE db
        d2 == IF t.type = "expense" /\ t.account_id # NULL
              THEN [d1 EXCEPT !.bank_accounts = AcctPlus(@, t.account_id, t.amount)]
              ELSE d1
        d3 == IF t.type = "income" /\ t.account_id # NULL
              THEN [d2 EXCEPT !.bank_accounts = AcctPlus(@, t.account_id, -t.amount)]
              ELSE d2
    IN  d3

\* "Delete Transaction": the three balance updates before the DELETE.
DeleteReverse(db, t) ==
    LET d1 == IF t.type = "expense" /\ t.credit_card_id # NULL
              THEN [db EXCEPT !.credit_cards = CardPlus(@, t.credit_card_id, -t.amount)]
              ELSE db
        d2 == IF t.type = "expense" /\ t.account_id # NULL
              THEN [d1 EXCEPT !.bank_accounts = AcctPlus(@, t.account_id, t.amount)]
              ELSE d1
        d3 == IF t.type = "income" /\ t.account_id # NULL
              THEN [d2 EXCEPT !.bank_accounts = AcctPlus(@, t.account_id, -t.amount)]
              ELSE d2
    IN  d3

\* The reversal forgets the income branch.
UpdateReverseNoIncome(db, original) ==
    LET d1 == IF original.type = "expense" /\ original.credit_card_id # NULL
              THEN [db EXCEPT !.credit_cards =
                        CardPlus(@, original.credit_card_id, -original.amount)]
              ELSE db
        d2 == IF original.type = "expense" /\ original.account_id # NULL
              THEN [d1 EXCEPT !.bank_accounts =
                        AcctPlus(@, original.account_id, original.amount)]
              ELSE d1
    IN  d2

\* "Update Transaction": reverse the effect of the original row.
UpdateReverse(db, original) ==
    LET d1 == IF original.type = "expense" /\ original.credit_card_id # NULL
              THEN [db EXCEPT !.credit_cards =
                        CardPlus(@, original.credit_card_id, -original.amount)]
              ELSE db
        d2 == IF original.type = "expense" /\ original.account_id # NULL
              THEN [d1 EXCEPT !.bank_accounts =
                        AcctPlus(@, original.account_id, original.amount)]
              ELSE d1
        d3 == IF original.type = "income" /\ original.account_id # NULL
              THEN [d2 EXCEPT !.bank_accounts =
                        AcctPlus(@, original.account_id, -original.amount)]
              ELSE d2
    IN  d3

\* "Update Transaction": apply the effect of the updated row.
UpdateApply(db, t) ==
    LET d1 == IF t.type = "expense" /\ t.credit_card_id # NULL
              THEN [db EXCEPT !.credit_cards = CardPlus(@, t.credit_card_id, t.amount)]
              ELSE db
        d2 == IF t.type = "expense" /\ t.account_id # NULL
              THEN [d1 EXCEPT !.bank_accounts = AcctPlus(@, t.account_id, -t.amount)]
              ELSE d1
        d3 == IF t.type = "income" /\ t.account_id # NULL
              THEN [d2 EXCEPT !.bank_accounts = AcctPlus(@, t.account_id, t.amount)]
              ELSE d2
    IN  d3

\* The import forgets the income branch.
ImportApplyNoIncome(db, t) ==
    LET d1 == IF t.type = "expense" /\ t.credit_card_id # NULL
              THEN [db EXCEPT !.credit_cards = CardPlus(@, t.credit_card_id, t.amount)]
              ELSE db
        d2 == IF t.type = "expense" /\ t.account_id # NULL
              THEN [d1 EXCEPT !.bank_accounts = AcctPlus(@, t.account_id, -t.amount)]
              ELSE d1
    IN  d2

\* "Import Transactions": the three balance updates after a row's INSERT.
ImportApply(db, t) ==
    LET d1 == IF t.type = "expense" /\ t.credit_card_id # NULL
              THEN [db EXCEPT !.credit_cards = CardPlus(@, t.credit_card_id, t.amount)]
              ELSE db
        d2 == IF t.type = "expense" /\ t.account_id # NULL
              THEN [d1 EXCEPT !.bank_accounts = AcctPlus(@, t.account_id, -t.amount)]
              ELSE d1
        d3 == IF t.type = "income" /\ t.account_id # NULL
              THEN [d2 EXCEPT !.bank_accounts = AcctPlus(@, t.account_id, t.amount)]
              ELSE d2
    IN  d3

(* ------------------------- bank accounts and cards --------------------- *)

\* Rows of either transaction table linked to an account / to a card.
LinkedToAccount(id) ==
    \/ \E r \in DOMAIN recurring_transactions : recurring_transactions[r].account_id = id
    \/ \E t \in DOMAIN actual_transactions : actual_transactions[t].account_id = id

LinkedToCard(id) ==
    \/ \E r \in DOMAIN recurring_transactions : recurring_transactions[r].credit_card_id = id
    \/ \E t \in DOMAIN actual_transactions : actual_transactions[t].credit_card_id = id

\* The guard counts the actual transactions only.
AccountDeleteRefusedActualOnly(id) ==
    \E t \in DOMAIN actual_transactions : actual_transactions[t].account_id = id

\* The guard of "Delete Account": recurring_count > 0 or actual_count > 0.
AccountDeleteRefused(id) == LinkedToAccount(id)

\* A card is deleted whatever is linked to it.
CardDeleteNeverRefused(id) == FALSE

\* The guard of "Delete Credit Card".
CardDeleteRefused(id) == LinkedToCard(id)

\* manage_bank_accounts, tab "Add Account".
AddAccount(account_balance) ==
    /\ conn.pc = "idle"
    /\ LET id == sqlite_sequence.bank_accounts + 1 IN
        /\ bank_accounts' = Insert(bank_accounts, id,
                                   [balance |-> account_balance, inexact |-> FALSE])
        /\ sqlite_sequence' = [sqlite_sequence EXCEPT !.bank_accounts = id]
        /\ opening' = [opening EXCEPT !.acct = Insert(@, id, account_balance)]
        /\ last' = Did("add_account", id)
    /\ UNCHANGED <<credit_cards, recurring_transactions, actual_transactions, conn, forecast, spending, selection>>

\* The UPDATE statement of "Update Account": the balance becomes the typed value.
UpdatedAccount(row, updated_balance) == [row EXCEPT !.balance = updated_balance]

\* manage_bank_accounts, tab "Update Account".
UpdateAccount(selected_account_id, updated_balance) ==
    /\ conn.pc = "idle"
    /\ selected_account_id \in DOMAIN bank_accounts
    /\ bank_accounts' = [bank_accounts EXCEPT ![selected_account_id] =
                            UpdatedAccount(@, updated_balance)]
    /\ last' = Did("update_account", selected_account_id)
    /\ UNCHANGED <<credit_cards, recurring_transactions, actual_transactions,
                   sqlite_sequence, conn, opening, forecast, spending, selection>>

\* manage_bank_accounts, tab "Delete Account".
DeleteAccount(selected_account_id) ==
    /\ conn.pc = "idle"
    /\ selected_account_id \in DOMAIN bank_accounts
    /\ IF AccountDeleteRefused(selected_account_id)
       THEN /\ last' = Did("delete_account_refused", selected_account_id)
            /\ UNCHANGED <<bank_accounts, opening>>
       ELSE /\ bank_accounts' = Delete(bank_accounts, selected_account_id)
            /\ opening' = [opening EXCEPT !.acct = Delete(@, selected_account_id)]
            /\ last' = Did("delete_account", selected_account_id)
    /\ UNCHANGED <<credit_cards, recurring_transactions, actual_transactions,
                   sqlite_sequence, conn, forecast, spending, selection>>

\* manage_credit_cards, tab "Add Credit Card".
AddCard(current_balance, statement_balance, credit_limit) ==
    /\ conn.pc = "idle"
    /\ LET id == sqlite_sequence.credit_cards + 1 IN
        /\ credit_cards' = Insert(credit_cards, id,
                [current_balance |-> current_balance,
                 statement_balance |-> statement_balance,
                 credit_limit |-> credit_limit, inexact |-> FALSE])
        /\ sqlite_sequence' = [sqlite_sequence EXCEPT !.credit_cards = id]
        /\ opening' = [opening EXCEPT !.card = Insert(@, id, current_balance)]
        /\ last' = Did("add_card", id)
    /\ UNCHANGED <<bank_accounts, recurring_transactions, actual_transactions, conn, forecast, spending, selection>>

\* The UPDATE statement of "Update Credit Card".
UpdatedCard(row, updated_current_balance, updated_statement_balance, updated_credit_limit) ==
    [row EXCEPT !.current_balance = updated_current_balance,
                !.statement_balance = updated_statement_balance,
                !.credit_limit = updated_credit_limit]

\* manage_credit_cards, tab "Update Credit Card".
UpdateCard(selected_card_id, updated_current_balance, updated_statement_balance, updated_credit_limit) ==
    /\ conn.pc = "idle"
    /\ selected_card_id \in DOMAIN credit_cards
    /\ credit_cards' = [credit_cards EXCEPT ![selected_card_id] =
            UpdatedCard(@, updated_current_balance, updated_statement_balance,
                        updated_credit_limit)]
    /\ last' = Did("update_card", selected_card_id)
    /\ UNCHANGED <<bank_accounts, recurring_transactions, actual_transactions,
                   sqlite_sequence, conn, opening, forecast, spending, selection>>

\* manage_credit_cards, tab "Delete Credit Card".
DeleteCard(selected_card_id) ==
    /\ conn.pc = "idle"
    /\ selected_card_id \in DOMAIN credit_cards
    /\ IF CardDeleteRefused(selected_card_id)
       THEN /\ last' = Did("delete_card_refused", selected_card_id)
            /\ UNCHANGED <<credit_cards, opening>>
       ELSE /\ credit_cards' = Delete(credit_cards, selected_card_id)
            /\ opening' = [opening EXCEPT !.card = Delete(@, selected_card_id)]
            /\ last' = Did("delete_card", selected_card_id)
    /\ UNCHANGED <<bank_accounts, recurring_transactions, actual_transactions,
                   sqlite_sequence, conn, forecast, spending, selection>>

(* --------------------------- recurring transactions -------------------- *)

Frequencies == {"monthly", "semi-monthly", "bi-weekly", "weekly",
                "quarterly", "annually", "one-time"}

\* A recurring_transactions row.
Rule(amount, type, frequency, start_date, end_date, link, is_active) ==
    [amount |-> amount, type |-> type, frequency |-> frequency,
     start_date |-> start_date, end_date |-> end_date,
     account_id |-> link.account_id, credit_card_id |-> link.credit_card_id,
     is_active |-> is_active]

\* What the recurring-transaction forms of the ledger runs are filled with.
RuleFrequenciesTyped == {"monthly"}
RuleStartTyped == {Date(2024, 1, 15)}
RuleAmountsTyped == {0, 200}

\* The rows a submitted recurring-transaction form can produce.
RuleForms ==
    { Rule(amount, type, frequency, start_date, NoDate,
           RulePaymentLink(pm, a, c), TRUE) :
        amount \in {x \in RuleAmountsTyped : x >= MinAmount},
        type \in TransactionTypes, frequency \in RuleFrequenciesTyped,
        start_date \in RuleStartTyped, pm \in PaymentMethods,
        a \in bank_account_options, c \in credit_card_options }

\* Adding a rule books its amount on the linked account, as if it were an
\* actual transaction.
AddRuleApplies(r) ==
    /\ conn.pc = "idle"
    /\ LET id == sqlite_sequence.recurring_transactions + 1 IN
        /\ recurring_transactions' = Insert(recurring_transactions, id, r)
        /\ sqlite_sequence' = [sqlite_sequence EXCEPT !.recurring_transactions = id]
        /\ last' = Did("add_rule", id)
    /\ bank_accounts' = AcctPlus(bank_accounts, r.account_id,
                                 IF r.type = "income" THEN r.amount ELSE -r.amount)
    /\ UNCHANGED <<credit_cards, actual_transactions, conn, opening, forecast, spending, selection>>

\* manage_recurring_transactions, tab "Add Transaction".
AddRule(r) ==
    /\ conn.pc = "idle"
    /\ LET id == sqlite_sequence.recurring_transactions + 1 IN
        /\ recurring_transactions' = Insert(recurring_transactions, id, r)
        /\ sqlite_sequence' = [sqlite_sequence EXCEPT !.recurring_transactions = id]
        /\ last' = Did("add_rule", id)
    /\ UNCHANGED <<bank_accounts, credit_cards, actual_transactions, conn, opening, forecast, spending, selection>>

\* manage_recurring_transactions, tab "Update Transaction".
UpdateRule(selected_transaction_id, r) ==
    /\ conn.pc = "idle"
    /\ selected_transaction_id \in DOMAIN recurring_transactions
    /\ recurring_transactions' =
            [recurring_transactions EXCEPT ![selected_transaction_id] = r]
    /\ last' = Did("update_rule", selected_transaction_id)
    /\ UNCHANGED <<bank_accounts, credit_cards, actual_transactions,
                   sqlite_sequence, conn, opening, forecast, spending, selection>>

\* Deleting a rule takes its amount back from the linked card.
DeleteRuleReverses(selected_transaction_id) ==
    /\ conn.pc = "idle"
    /\ selected_transaction_id \in DOMAIN recurring_transactions
    /\ recurring_transactions' = Delete(recurring_transactions, selected_transaction_id)
    /\ last' = Did("delete_rule", selected_transaction_id)
    /\ credit_cards' = CardPlus(credit_cards,
                                recurring_transactions[selected_transaction_id].credit_card_id,
                                -recurring_transactions[selected_transaction_id].amount)
    /\ UNCHANGED <<bank_accounts, actual_transactions,
                   sqlite_sequence, conn, opening, forecast, spending, selection>>

\* manage_recurring_transactions, tab "Delete Transaction".
DeleteRule(selected_transaction_id) ==
    /\ conn.pc = "idle"
    /\ selected_transaction_id \in DOMAIN recurring_transactions
    /\ recurring_transactions' = Delete(recurring_transactions, selected_transaction_id)
    /\ last' = Did("delete_rule", selected_transaction_id)
    /\ UNCHANGED <<bank_accounts, credit_cards, actual_transactions,
                   sqlite_sequence, conn, opening, forecast, spending, selection>>

(* ---------------------------- actual transactions ---------------------- *)

\* The rows a submitted "Add Transaction" form can produce: the amount field
\* lets nothing below min_value through.
AddForms ==
    { Txn(amount, type, AddPaymentLink(pm, a, c)) :
        amount \in {x \in AmountsTyped : x >= MinAmount},
        type \in TransactionTypes, pm \in PaymentMethods,
        a \in bank_account_options, c \in credit_card_options }

\* The rows a submitted "Update Transaction" form can produce.
UpdateForms ==
    { Txn(amount, type, UpdatePaymentLink(pm, a, c)) :
        amount \in {x \in AmountsTyped : x >= MinAmount},
        type \in TransactionTypes, pm \in PaymentMethods,
        a \in bank_account_options, c \in credit_card_options }

\* manage_actual_transactions, tab "Add Transaction": INSERT, balance updates,
\* commit.
AddTransaction(t) ==
    /\ conn.pc = "idle"
    /\ LET id == sqlite_sequence.actual_transactions + 1
           db == AddApply(Money(bank_accounts, credit_cards), t)
       IN
        /\ actual_transactions' = Insert(actual_transactions, id, t)
        /\ sqlite_sequence' = [sqlite_sequence EXCEPT !.actual_transactions = id]
        /\ bank_accounts' = db.bank_accounts
        /\ credit_cards' = db.credit_cards
        /\ last' = [op |-> "add", id |-> id, pre |-> Snap, undone |-> NoSnap,
                    row |-> NoRow]
    /\ UNCHANGED <<recurring_transactions, conn, opening, forecast, spending, selection>>

\* manage_actual_transactions, tab "Delete Transaction": reverse the selected
\* row's effect, DELETE, commit.
DeleteTransaction(selected_transaction_id) ==
    /\ conn.pc = "idle"
    /\ selected_transaction_id \in DOMAIN actual_transactions
    /\ LET selected_transaction == actual_transactions[selected_transaction_id]
           db == DeleteReverse(Money(bank_accounts, credit_cards), selected_transaction)
       IN
        /\ actual_transactions' = Delete(actual_transactions, selected_transaction_id)
        /\ bank_accounts' = db.bank_accounts
        /\ credit_cards' = db.credit_cards
        /\ last' = [op |-> "delete", id |-> selected_transaction_id, pre |-> NoSnap,
                    undone |-> IF last.op = "add" /\ last.id = selected_transaction_id
                               THEN last.pre ELSE NoSnap,
                    row |-> IF last.op = "add" /\ last.id = selected_transaction_id
                            THEN selected_transaction ELSE NoRow]
    /\ UNCHANGED <<recurring_transactions, sqlite_sequence, conn, opening, forecast, spending, selection>>

\* manage_actual_transactions, tab "Update Transaction": reverse the original
\* row's effect, rewrite the row, apply the new row's effect, commit.
UpdateTransaction(selected_transaction_id, t) ==
    /\ conn.pc = "idle"
    /\ selected_transaction_id \in DOMAIN actual_transactions
    /\ LET original == actual_transactions[selected_transaction_id]
           reversed == UpdateReverse(Money(bank_accounts, credit_cards), original)
           db == UpdateApply(reversed, t)
       IN
        /\ actual_transactions' =
                [actual_transactions EXCEPT ![selected_transaction_id] = t]
        /\ bank_accounts' = db.bank_accounts
        /\ credit_cards' = db.credit_cards
        /\ last' = Did("update", selected_transaction_id)
    /\ UNCHANGED <<recurring_transactions, sqlite_sequence, conn, opening, forecast, spending, selection>>

(* ------------- a script run, from its SELECT to its button ------------- *)

\* Every click reruns the script: the "Update Transaction" and "Delete
\* Transaction" tabs SELECT the stored rows on a connection they close again,
\* build the select box from them, and only then reach the button's branch.
\* Other sessions write to the store in between.
FetchTransactions ==
    /\ selection.pc = "none"
    /\ DOMAIN actual_transactions # {}
    /\ selection' = [pc |-> "fetched", transactions |-> actual_transactions,
                     runs |-> selection.runs + 1]
    /\ UNCHANGED <<bank_accounts, credit_cards, recurring_transactions, actual_transactions,
                   sqlite_sequence, conn, opening, last, forecast, spending>>

\* The run ends without a button pressed.
RunEnds ==
    /\ selection.pc = "fetched"
    /\ selection' = [selection EXCEPT !.pc = "none", !.transactions = <<>>]
    /\ UNCHANGED <<bank_accounts, credit_cards, recurring_transactions, actual_transactions,
                   sqlite_sequence, conn, opening, last, forecast, spending>>

\* The branch of the "Delete Transaction" button: the reversal takes amount,
\* type and links from the fetched row; DELETE ... WHERE id = ?
DeleteSelected(selected_transaction_id) ==
    /\ conn.pc = "idle"
    /\ selection.pc = "fetched"
    /\ selected_transaction_id \in DOMAIN selection.transactions
    /\ LET selected_transaction == selection.transactions[selected_transaction_id]
           db == DeleteReverse(Money(bank_accounts, credit_cards), selected_transaction)
       IN
        /\ actual_transactions' = Delete(actual_transactions, selected_transaction_id)
        /\ bank_accounts' = db.bank_accounts
        /\ credit_cards' = db.credit_cards
        /\ last' = Did("delete", selected_transaction_id)
    /\ selection' = [selection EXCEPT !.pc = "none", !.transactions = <<>>]
    /\ UNCHANGED <<recurring_transactions, sqlite_sequence, conn, opening, forecast, spending>>

\* The branch of the "Update Transaction" button: original_amount,
\* original_type and the original links are the fetched row's;
\* UPDATE actual_transactions ... WHERE id = ? rewrites the row if it is there.
UpdateSelected(selected_transaction_id, t) ==
    /\ conn.pc = "idle"
    /\ selection.pc = "fetched"
    /\ selected_transaction_id \in DOMAIN selection.transactions
    /\ LET original == selection.transactions[selected_transaction_id]
           reversed == UpdateReverse(Money(bank_accounts, credit_cards), original)
           db == UpdateApply(reversed, t)
       IN
        /\ actual_transactions' =
                IF selected_transaction_id \in DOMAIN actual_transactions
                THEN [actual_transactions EXCEPT ![selected_transaction_id] = t]
                ELSE actual_transactions
        /\ bank_accounts' = db.bank_accounts
        /\ credit_cards' = db.credit_cards
        /\ last' = Did("update", selected_transaction_id)
    /\ selection' = [selection EXCEPT !.pc = "none", !.transactions = <<>>]
    /\ UNCHANGED <<recurring_transactions, sqlite_sequence, conn, opening, forecast, spending>>

(* ------------------ the update handler, statement by statement --------- *)

\* The handler's statements run on one connection, inside the transaction
\* sqlite3 opens at the first of them; other sessions read the store meanwhile.

\* A connection in autocommit mode: every statement is committed as it runs.
AfterStatementAutocommit(store, work) == work

\* get_db_connection(): sqlite3.connect with the default isolation level, so
\* a statement executed on the connection leaves the committed store as it is
\* until conn.commit(); `work` is the connection's own view.
AfterStatement(store, work) == store

\* The store other connections read.
Committed == [db |-> Money(bank_accounts, credit_cards), rows |-> actual_transactions]

\* The first block: reverse the original row's effect.
UpdateBegin(selected_transaction_id, t) ==
    /\ conn.pc = "idle"
    /\ selected_transaction_id \in DOMAIN actual_transactions
    /\ LET original == actual_transactions[selected_transaction_id]
           db == UpdateReverse(Money(bank_accounts, credit_cards), original)
           after == AfterStatement(Committed, [db |-> db, rows |-> actual_transactions])
       IN
        /\ conn' = [pc |-> "reversed", id |-> selected_transaction_id,
                    original |-> original, new |-> t,
                    db |-> db, rows |-> actual_transactions]
        /\ bank_accounts' = after.db.bank_accounts
        /\ credit_cards' = after.db.credit_cards
        /\ actual_transactions' = after.rows
    /\ UNCHANGED <<recurring_transactions, sqlite_sequence, opening, last, forecast, spending, selection>>

\* The second block: UPDATE actual_transactions ... WHERE id = ?
UpdateRewrite ==
    /\ conn.pc = "reversed"
    /\ LET rows == [conn.rows EXCEPT ![conn.id] = conn.new]
           after == AfterStatement(Committed, [db |-> conn.db, rows |-> rows])
       IN
        /\ conn' = [conn EXCEPT !.pc = "rewritten", !.rows = rows]
        /\ bank_accounts' = after.db.bank_accounts
        /\ credit_cards' = after.db.credit_cards
        /\ actual_transactions' = after.rows
    /\ UNCHANGED <<recurring_transactions, sqlite_sequence, opening, last, forecast, spending, selection>>

\* The third block: apply the updated row's effect.
UpdateReapply ==
    /\ conn.pc = "rewritten"
    /\ LET db == UpdateApply(conn.db, conn.new)
           after == AfterStatement(Committed, [db |-> db, rows |-> conn.rows])
       IN
        /\ conn' = [conn EXCEPT !.pc = "applied", !.db = db]
        /\ bank_accounts' = after.db.bank_accounts
        /\ credit_cards' = after.db.credit_cards
        /\ actual_transactions' = after.rows
    /\ UNCHANGED <<recurring_transactions, sqlite_sequence, opening, last, forecast, spending, selection>>

\* conn.commit()
UpdateCommit ==
    /\ conn.pc = "applied"
    /\ bank_accounts' = conn.db.bank_accounts
    /\ credit_cards' = conn.db.credit_cards
    /\ actual_transactions' = conn.rows
    /\ conn' = Idle
    /\ last' = Did("update", conn.id)
    /\ UNCHANGED <<recurring_transactions, sqlite_sequence, opening, forecast, spending, selection>>

\* An exception before the commit: the connection is dropped uncommitted.
UpdateFail ==
    /\ conn.pc # "idle"
    /\ conn' = Idle
    /\ UNCHANGED <<bank_accounts, credit_cards, recurring_transactions,
                   actual_transactions, sqlite_sequence, opening, last, forecast, spending, selection>>

(* -------------------------------- CSV import --------------------------- *)

\* How the import form settles a row's type: from the CSV's type column, or
\* from one of the four "Amount Sign Interpretation" choices (the last one
\* taking the form's default type).
TypeSources == {"type column", "Positive=Income, Negative=Expense",
                "All amounts are expenses", "All amounts are income",
                "Use Type column only"}

\* A CSV row: its raw amount, its type cell, and whether float() accepts the
\* amount cell.
CsvRow(amount, type, parses) == [amount |-> amount, type |-> type, parses |-> parses]
CsvRows == {CsvRow(-2, "expense", TRUE), CsvRow(0, "refund", TRUE),
            CsvRow(200, "transfer", TRUE), CsvRow(200, "expense", FALSE)}

\* The files a user may upload: every one-row file, and two-row files with a
\* row that does not parse before or after one that does.
CsvFiles ==
    {<<row>> : row \in CsvRows}
        \cup {<<CsvRow(200, "expense", FALSE), CsvRow(-2, "expense", TRUE)>>,
              <<CsvRow(200, "transfer", TRUE), CsvRow(200, "expense", FALSE)>>,
              <<CsvRow(-2, "expense", TRUE), CsvRow(200, "transfer", TRUE)>>}

\* abs(float(row[amount_col]))
amount_value(row) == Abs(row.amount)

\* The type of an imported row.
type_value(row, type_source, default_type) ==
    IF type_source = "type column"
    THEN IF row.type \in {"expense", "debit", "payment", "purchase", "withdraw",
                          "withdrawal"}
         THEN "expense"
         ELSE IF row.type \in {"income", "credit", "deposit", "refund", "inflow"}
         THEN "income"
         ELSE "expense"
    ELSE IF type_source = "Positive=Income, Negative=Expense"
    THEN IF row.amount > 0 THEN "income" ELSE "expense"
    ELSE IF type_source = "All amounts are expenses" THEN "expense"
    ELSE IF type_source = "All amounts are income" THEN "income"
    ELSE default_type

\* One turn of the import loop on the connection's view s = [db, rows, seq]:
\* a row whose amount does not parse raises before the INSERT and is skipped.
ImportRow(s, row, type_source, default_type, link) ==
    IF ~row.parses THEN s
    ELSE LET t == Txn(amount_value(row), type_value(row, type_source, default_type), link)
         IN  [db |-> ImportApply(s.db, t),
              rows |-> Insert(s.rows, s.seq + 1, t),
              seq |-> s.seq + 1]

RECURSIVE ImportLoop(_, _, _, _, _)
ImportLoop(s, csv, type_source, default_type, link) ==
    IF csv = <<>> THEN s
    ELSE ImportLoop(ImportRow(s, Head(csv), type_source, default_type, link),
                    Tail(csv), type_source, default_type, link)

\* manage_actual_transactions, tab "Import Transactions": the loop over the
\* rows, then one commit.
ImportTransactions(csv, type_source, default_type, link) ==
    /\ conn.pc = "idle"
    /\ LET s == ImportLoop([db |-> Money(bank_accounts, credit_cards),
                            rows |-> actual_transactions,
                            seq |-> sqlite_sequence.actual_transactions],
                           csv, type_source, default_type, link)
       IN
        /\ bank_accounts' = s.db.bank_accounts
        /\ credit_cards' = s.db.credit_cards
        /\ actual_transactions' = s.rows
        /\ sqlite_sequence' = [sqlite_sequence EXCEPT !.actual_transactions = s.seq]
        /\ last' = Did("import", s.seq)
    /\ UNCHANGED <<recurring_transactions, conn, opening, forecast, spending, selection>>

(* ----------------------- statements that raise ------------------------- *)

\* "Add Transaction" when one of its statements or the commit raises: the
\* except branch reports the error, and the connection is dropped with what it
\* wrote uncommitted.
AddTransactionRaises(t) ==
    /\ conn.pc = "idle"
    /\ last' = Did("add failed", 0)
    /\ UNCHANGED <<bank_accounts, credit_cards, recurring_transactions,
                   actual_transactions, sqlite_sequence, conn, opening, forecast, spending, selection>>

\* "Delete Transaction" when one of its statements or the commit raises.
DeleteTransactionRaises(selected_transaction_id) ==
    /\ conn.pc = "idle"
    /\ selected_transaction_id \in DOMAIN actual_transactions
    /\ last' = Did("delete failed", selected_transaction_id)
    /\ UNCHANGED <<bank_accounts, credit_cards, recurring_transactions,
                   actual_transactions, sqlite_sequence, conn, opening, forecast, spending, selection>>

\* Where the processing of an imported row can raise: nowhere, at the INSERT,
\* or at a balance UPDATE. SQLite undoes the statement that failed and keeps
\* the transaction, or rolls the whole transaction back.
RowFaults == {"none", "INSERT", "UPDATE", "UPDATE, transaction rolled back"}

\* One turn of the import loop, the row's try block raising at `fault`; s0 is
\* the store as last committed. The except branch counts the error and goes
\* on to the next row.
ImportRowOrRaise(s, s0, row, type_source, default_type, link, fault) ==
    IF ~row.parses \/ fault = "INSERT" THEN s
    ELSE LET t == Txn(amount_value(row), type_value(row, type_source, default_type), link)
             inserted == [db |-> s.db, rows |-> Insert(s.rows, s.seq + 1, t),
                          seq |-> s.seq + 1]
         IN  IF fault = "none" \/ ImportApply(s.db, t) = s.db
             THEN [inserted EXCEPT !.db = ImportApply(s.db, t)]
             ELSE IF fault = "UPDATE" THEN inserted
             ELSE s0

RECURSIVE ImportLoopOrRaise(_, _, _, _, _, _, _)
ImportLoopOrRaise(s, s0, csv, type_source, default_type, link, faults) ==
    IF csv = <<>> THEN s
    ELSE ImportLoopOrRaise(ImportRowOrRaise(s, s0, Head(csv), type_source, default_type,
                                            link, Head(faults)),
                           s0, Tail(csv), type_source, default_type, link, Tail(faults))

\* "Import Transactions" with row i raising at faults[i]: the loop over the
\* rows, then one commit.
ImportTransactionsOrRaise(csv, type_source, default_type, link, faults) ==
    /\ conn.pc = "idle"
    /\ LET s0 == [db |-> Money(bank_accounts, credit_cards),
                  rows |-> actual_transactions,
                  seq |-> sqlite_sequence.actual_transactions]
           s == ImportLoopOrRaise(s0, s0, csv, type_source, default_type, link, faults)
       IN
        /\ bank_accounts' = s.db.bank_accounts
        /\ credit_cards' = s.db.credit_cards
        /\ actual_transactions' = s.rows
        /\ sqlite_sequence' = [sqlite_sequence EXCEPT !.actual_transactions = s.seq]
        /\ last' = Did(IF \E i \in DOMAIN faults : faults[i] # "none"
                       THEN "import with errors" ELSE "import", s.seq)
    /\ UNCHANGED <<recurring_transactions, conn, opening, forecast, spending, selection>>

(* ------------------------------ balance forecast ----------------------- *)

\* st.slider("Forecast Months", min_value=1, max_value=12)
MaxForecastMonths == 12

\* Date order, as the comparison of a Timestamp with a date orders them.
DateLT(a, b) ==
    \/ a.y < b.y
    \/ a.y = b.y /\ a.m < b.m
    \/ a.y = b.y /\ a.m = b.m /\ a.d < b.d

RECURSIVE SumBalances(_, _)
\* bank_accounts['balance'].sum(), the rows of ids taken in order.
SumBalances(accts, ids) ==
    IF ids = {} THEN 0
    ELSE LET id == CHOOSE x \in ids : \A z \in ids : z <= x
         IN  Fl(SumBalances(accts, ids \ {id}) + accts[id].balance)

total_current_balance == SumBalances(bank_accounts, DOMAIN bank_accounts)

\* The rows of SELECT ... FROM recurring_transactions WHERE is_active = 1.
recurring == {r \in DOMAIN recurring_transactions : recurring_transactions[r].is_active}

\* A forecast month computed without the carry into the year.
next_month_same_year(forecast_start, i) ==
    Date(forecast_start.y, ((forecast_start.m + i - 1) % 12) + 1, forecast_start.d)

\* The date of the i-th forecast month.
next_month(forecast_start, i) ==
    IF (forecast_start.m + i) % 12 = 0
    THEN Date(forecast_start.y + ((forecast_start.m + i) \div 12) - 1, 12, forecast_start.d)
    ELSE Date(forecast_start.y + ((forecast_start.m + i - 1) \div 12),
              ((forecast_start.m + i - 1) % 12) + 1, forecast_start.d)

\* The two `continue` tests at the head of the loop over the rules.
Skipped(transaction, month) ==
    \/ DateLT(month, transaction.start_date)
    \/ transaction.end_date # NoDate /\ DateLT(transaction.end_date, month)

\* The amount of a rule for a forecast month, by its frequency.
monthly_amount(transaction, month) ==
    LET frequency == transaction.frequency
        amount == transaction.amount
    IN  IF frequency = "monthly" THEN amount
        ELSE IF frequency = "semi-monthly" THEN Fl(amount * 2)
        ELSE IF frequency = "weekly" THEN FlQ(amount * 433, 100)
        ELSE IF frequency = "bi-weekly" THEN FlQ(amount * 217, 100)
        ELSE IF frequency = "quarterly"
        THEN LET months_diff == (month.y - transaction.start_date.y) * 12
                                    + month.m - transaction.start_date.m
             IN  IF months_diff % 3 = 0 THEN amount ELSE 0
        ELSE IF frequency = "annually"
        THEN IF month.m = transaction.start_date.m THEN amount ELSE 0
        ELSE IF frequency = "one-time"
        THEN IF month.y = transaction.start_date.y /\ month.m = transaction.start_date.m
             THEN amount ELSE 0
        ELSE amount

\* A rule paid by credit card leaves the projected bank balance alone.
NextBalanceOffCard(next_balance, transaction, month) ==
    IF Skipped(transaction, month) \/ transaction.credit_card_id # NULL THEN next_balance
    ELSE IF transaction.type = "income"
    THEN Fl(next_balance + monthly_amount(transaction, month))
    ELSE Fl(next_balance - monthly_amount(transaction, month))

\* One turn of the loop over the rules.
NextBalance(next_balance, transaction, month) ==
    IF Skipped(transaction, month) THEN next_balance
    ELSE IF transaction.type = "income"
    THEN Fl(next_balance + monthly_amount(transaction, month))
    ELSE Fl(next_balance - monthly_amount(transaction, month))

RECURSIVE MonthBalance(_, _, _)
\* The loop over the rules ids, in row order, for one forecast month.
MonthBalance(next_balance, ids, month) ==
    IF ids = {} THEN next_balance
    ELSE LET id == CHOOSE x \in ids : \A z \in ids : x <= z
         IN  MonthBalance(NextBalance(next_balance, recurring_transactions[id], month),
                          ids \ {id}, month)

RECURSIVE ForecastLoop(_, _, _, _, _)
\* The loop over the forecast months i..forecast_months.
ForecastLoop(i, forecast_months, forecast_start, forecast_dates, forecast_balances) ==
    IF i > forecast_months
    THEN [forecast_dates |-> forecast_dates, forecast_balances |-> forecast_balances]
    ELSE LET month == next_month(forecast_start, i)
             next_balance == MonthBalance(forecast_balances[Len(forecast_balances)],
                                          recurring, month)
         IN  ForecastLoop(i + 1, forecast_months, forecast_start,
                          Append(forecast_dates, month),
                          Append(forecast_balances, next_balance))

\* forecast_df['balance'].min()
lowest_balance(forecast_balances) ==
    CHOOSE b \in {forecast_balances[i] : i \in DOMAIN forecast_balances} :
        \A i \in DOMAIN forecast_balances : b <= forecast_balances[i]

\* An outlook that looks at the ending balance only.
outlook_of_ending_balance(forecast_balances) ==
    IF forecast_balances[Len(forecast_balances)] < 0 THEN "alert"
    ELSE IF forecast_balances[Len(forecast_balances)] < forecast_balances[1]
    THEN "declining"
    ELSE "positive"

\* The recommendation under "Forecast Analysis": st.warning, st.info or
\* st.success.
outlook(forecast_balances) ==
    LET end_balance == forecast_balances[Len(forecast_balances)]
    IN  IF lowest_balance(forecast_balances) < 0 THEN "alert"
        ELSE IF end_balance < forecast_balances[1] THEN "declining"
        ELSE "positive"

\* show_visualizations, tab "Balance Forecast".
ShowForecast(forecast_months) ==
    /\ conn.pc = "idle"
    /\ IF DOMAIN bank_accounts # {}
       THEN LET forecast_start == [forecast.today EXCEPT !.d = 1]
                out == ForecastLoop(1, forecast_months, forecast_start,
                                    <<forecast_start>>, <<total_current_balance>>)
            IN  forecast' = [today |-> forecast.today, shown |-> TRUE,
                             forecast_months |-> forecast_months,
                             forecast_dates |-> out.forecast_dates,
                             forecast_balances |-> out.forecast_balances,
                             outlook |-> outlook(out.forecast_balances)]
       ELSE forecast' = NoForecast(forecast.today)
    /\ UNCHANGED <<bank_accounts, credit_cards, recurring_transactions,
                   actual_transactions, sqlite_sequence, conn, opening, last, spending, selection>>

(* --------------------------- expected vs. actual ----------------------- *)

\* The rows of the two tables as this tab reads them: a rule with its
\* category, a transaction with its date and category. No other page reads
\* these columns.
CategorizedRule(rule, category) == rule @@ [category |-> category]
DatedTxn(t, date, category) == t @@ [date |-> date, category |-> category]

\* a <= b on dates.
DateLE(a, b) == ~DateLT(b, a)

\* date - timedelta(days=1)
DayBefore(date) ==
    LET leap == date.y % 4 = 0 /\ (date.y % 100 # 0 \/ date.y % 400 = 0)
        days == [m \in 1..12 |-> IF m \in {4, 6, 9, 11} THEN 30
                                 ELSE IF m = 2 THEN (IF leap THEN 29 ELSE 28) ELSE 31]
    IN  IF date.d > 1 THEN [date EXCEPT !.d = date.d - 1]
        ELSE IF date.m > 1 THEN Date(date.y, date.m - 1, days[date.m - 1])
        ELSE Date(date.y - 1, 12, 31)

month_start(month_year) == [month_year EXCEPT !.d = 1]

month_end(month_year) ==
    IF month_year.m = 12 THEN DayBefore(Date(month_year.y + 1, 1, 1))
    ELSE DayBefore(Date(month_year.y, month_year.m + 1, 1))

\* The rows of the SELECT on recurring_transactions.
expected_query(month_year) ==
    {r \in DOMAIN recurring_transactions :
        /\ recurring_transactions[r].is_active
        /\ DateLE(recurring_transactions[r].start_date, month_end(month_year))
        /\ \/ recurring_transactions[r].end_date = NoDate
           \/ DateLE(month_start(month_year), recurring_transactions[r].end_date)
        /\ recurring_transactions[r].type = "expense"}

\* The rows of the SELECT on actual_transactions.
actual_query(month_year) ==
    {t \in DOMAIN actual_transactions :
        /\ DateLE(month_start(month_year), actual_transactions[t].date)
        /\ DateLE(actual_transactions[t].date, month_end(month_year))
        /\ actual_transactions[t].type = "expense"}

\* The expected monthly amount with a month of four weeks and a quarter of
\* four months.
calculate_monthly_amount_four(row, month_year) ==
    IF row.frequency = "semi-monthly" THEN Fl(row.amount * 2)
    ELSE IF row.frequency = "weekly" THEN Fl(row.amount * 4)
    ELSE IF row.frequency = "bi-weekly" THEN FlQ(row.amount * 217, 100)
    ELSE IF row.frequency = "quarterly" THEN FlQ(row.amount, 4)
    ELSE IF row.frequency = "annually" THEN FlQ(row.amount, 12)
    ELSE IF row.frequency = "one-time"
    THEN IF DateLE(month_start(month_year), row.start_date)
                /\ DateLE(row.start_date, month_end(month_year))
         THEN row.amount ELSE 0
    ELSE row.amount

\* The expected monthly amount of a rule, by its frequency.
calculate_monthly_amount(row, month_year) ==
    LET frequency == row.frequency
        amount == row.amount
    IN  IF frequency = "monthly" THEN amount
        ELSE IF frequency = "semi-monthly" THEN Fl(amount * 2)
        ELSE IF frequency = "weekly" THEN FlQ(amount * 433, 100)
        ELSE IF frequency = "bi-weekly" THEN FlQ(amount * 217, 100)
        ELSE IF frequency = "quarterly" THEN FlQ(amount, 3)
        ELSE IF frequency = "annually" THEN FlQ(amount, 12)
        ELSE IF frequency = "one-time"
        THEN LET payment_date == row.start_date
             IN  IF DateLE(month_start(month_year), payment_date)
                        /\ DateLE(payment_date, month_end(month_year))
                 THEN amount ELSE 0
        ELSE amount

RECURSIVE ColumnSum(_, _)
\* column.sum() over the rows ids, in row order.
ColumnSum(column, ids) ==
    IF ids = {} THEN 0
    ELSE LET id == CHOOSE x \in ids : \A z \in ids : z <= x
         IN  Fl(ColumnSum(column, ids \ {id}) + column[id])

\* A difference taken as expected minus actual.
difference_reversed(actual, expected) == Fl(expected - actual)

\* actual - expected
difference(actual, expected) == Fl(actual - expected)

\* difference / expected * 100 if expected > 0 else 0. The quotient is not an
\* amount of money: it is kept in hundredths of a percent, rounded to the
\* nearest.
percent_diff(diff, expected) ==
    IF expected > 0 THEN RoundDiv(diff * 10000, expected) ELSE 0

\* The categories of the rows ids of a table, as groupby('category') finds them.
CategoriesOf(table, ids) == {table[id].category : id \in ids}

\* One row of merged_categories.
CategoryRow(category, month_year, rules, acts, monthly) ==
    LET expected == ColumnSum(monthly, {r \in rules :
                                  recurring_transactions[r].category = category})
        actual == ColumnSum([t \in acts |-> actual_transactions[t].amount],
                            {t \in acts : actual_transactions[t].category = category})
    IN  [category |-> category, expected |-> expected, actual |-> actual,
         difference |-> difference(actual, expected),
         percent_diff |-> percent_diff(difference(actual, expected), expected)]

\* The orders sort_values('expected', ascending=False) can leave the rows in.
SortedByExpected(rows) ==
    {seq \in [1..Cardinality(rows) -> rows] :
        /\ \A i, j \in DOMAIN seq : i # j => seq[i] # seq[j]
        /\ \A i, j \in DOMAIN seq : i < j => seq[i].expected >= seq[j].expected}

\* What DataFrame.apply(..., axis=1) on a frame without rows, assigned to a
\* column, can do: raise, or leave an empty column.
ApplyOnEmptyFrame == {"raises", "empty column"}

\* show_visualizations, tab "Expected vs. Actual Spending".
ShowSpending(month_year, category_filter, on_empty) ==
    /\ conn.pc = "idle"
    /\ LET rules == expected_query(month_year)
           acts == actual_query(month_year)
           monthly == [r \in rules |->
                          calculate_monthly_amount(recurring_transactions[r], month_year)]
           shown == [NoSpending EXCEPT !.month_year = month_year,
                                       !.category_filter = category_filter]
       IN  IF rules = {} /\ acts = {}
           THEN spending' = [shown EXCEPT !.status = "no data"]
           ELSE IF rules = {} /\ on_empty = "raises"
           THEN spending' = [shown EXCEPT !.status = "raised"]
           ELSE IF category_filter = "All Categories"
           THEN LET expected_total == ColumnSum(monthly, rules)
                    actual_total == ColumnSum([t \in acts |-> actual_transactions[t].amount],
                                              acts)
                IN  spending' = [shown EXCEPT
                        !.status = "shown",
                        !.monthly_amount = monthly,
                        !.expected_total = expected_total,
                        !.actual_total = actual_total,
                        !.difference = difference(actual_total, expected_total),
                        !.percent_diff = percent_diff(difference(actual_total,
                                                                 expected_total),
                                                      expected_total)]
           ELSE \E merged_categories \in SortedByExpected(
                        {CategoryRow(c, month_year, rules, acts, monthly) :
                            c \in CategoriesOf(recurring_transactions, rules)
                                    \cup CategoriesOf(actual_transactions, acts)}) :
                    spending' = [shown EXCEPT !.status = "shown",
                                              !.monthly_amount = monthly,
                                              !.merged_categories = merged_categories]
    /\ UNCHANGED <<bank_accounts, credit_cards, recurring_transactions,
                   actual_transactions, sqlite_sequence, conn, opening, last, forecast, selection>>

(* ------------------------- src/cash_flow.py ---------------------------- *)

\* The earlier prototype keeps its own database (finance_tracker.db); its
\* pages write the bank_accounts table only.

\* manage_bank_accounts(conn, cursor): "Save Account", for a new account
\* (account_id NULL) or a selected one.
cash_flow_manage_bank_accounts(account_id, new_balance) ==
    /\ conn.pc = "idle"
    /\ IF account_id = NULL
       THEN LET id == sqlite_sequence.bank_accounts + 1 IN
             /\ bank_accounts' = Insert(bank_accounts, id,
                                        [balance |-> new_balance, inexact |-> FALSE])
             /\ sqlite_sequence' = [sqlite_sequence EXCEPT !.bank_accounts = id]
             /\ opening' = [opening EXCEPT !.acct = Insert(@, id, new_balance)]
             /\ last' = Did("add_account", id)
       ELSE /\ account_id \in DOMAIN bank_accounts
            /\ bank_accounts' = [bank_accounts EXCEPT ![account_id].balance = new_balance]
            /\ last' = Did("update_account", account_id)
            /\ UNCHANGED <<sqlite_sequence, opening>>
    /\ UNCHANGED <<credit_cards, recurring_transactions, actual_transactions, conn,
                   forecast, spending, selection>>

\* display_bank_accounts(conn, cursor): "Delete Selected Account".
cash_flow_display_bank_accounts(account_id) ==
    /\ conn.pc = "idle"
    /\ account_id \in DOMAIN bank_accounts
    /\ bank_accounts' = Delete(bank_accounts, account_id)
    /\ opening' = [opening EXCEPT !.acct = Delete(@, account_id)]
    /\ last' = Did("delete_account", account_id)
    /\ UNCHANGED <<credit_cards, recurring_transactions, actual_transactions,
                   sqlite_sequence, conn, forecast, spending, selection>>

(* ----------------------------- specifications -------------------------- *)

\* The accounts and cards a run of the ledger starts with.
LedgerAccountIds == {1, 2}
LedgerCardIds == {1}
\* The ids the whole application may hand out.
AppAccountIds == {1}
AppCardIds == {1}
AppRuleIds == {1}
AppTxnIds == {1}

\* A store holding accounts and cards and no transaction yet.
InitLedger ==
    /\ \E b \in OpeningBalances :
          bank_accounts = [a \in LedgerAccountIds |->
                             [balance |-> IF a = 1 THEN b ELSE 1000, inexact |-> FALSE]]
    /\ credit_cards = [c \in LedgerCardIds |->
                         [current_balance |-> 0, statement_balance |-> 0,
                          credit_limit |-> 2000, inexact |-> FALSE]]
    /\ recurring_transactions = Empty
    /\ actual_transactions = Empty
    /\ sqlite_sequence = [bank_accounts |-> Cardinality(LedgerAccountIds),
                          credit_cards |-> Cardinality(LedgerCardIds),
                          recurring_transactions |-> 0, actual_transactions |-> 0]
    /\ conn = Idle
    /\ opening = BalancesOf(Money(bank_accounts, credit_cards))
    /\ last = Did("init", 0)
    /\ forecast = NoForecast(Date(2024, 1, 15))
    /\ spending = NoSpending
    /\ selection = NoSelection

\* The type source chosen in the import form, with the default type where
\* the form shows that field.
ImportTypings ==
    {<<src, "expense">> : src \in TypeSources} \cup {<<"Use Type column only", "income">>}

ImportLinks ==
    { ImportPaymentLink(pm, a, c) :
        pm \in PaymentMethods, a \in bank_account_options, c \in credit_card_options }

\* The operations on actual transactions.
Reconcile ==
    \/ \E t \in AddForms :
          /\ sqlite_sequence.actual_transactions < LedgerTxns
          /\ AddTransaction(t)
    \/ \E id \in DOMAIN actual_transactions, t \in UpdateForms : UpdateTransaction(id, t)
    \/ \E id \in DOMAIN actual_transactions : DeleteTransaction(id)
    \/ \E csv \in CsvFiles, typing \in ImportTypings, link \in ImportLinks :
          /\ sqlite_sequence.actual_transactions + Len(csv) <= LedgerTxns
          /\ ImportTransactions(csv, typing[1], typing[2], link)

\* The ledger: any sequence of operations on actual transactions.
SpecReconcile == InitLedger /\ [][Reconcile]_vars

\* The "Add", "Update" and "Delete Transaction" tabs alone.
Edit ==
    \/ \E t \in AddForms :
          /\ sqlite_sequence.actual_transactions < UpdateTxns
          /\ AddTransaction(t)
    \/ \E id \in DOMAIN actual_transactions, t \in UpdateForms : UpdateTransaction(id, t)
    \/ \E id \in DOMAIN actual_transactions : DeleteTransaction(id)

SpecUpdate == InitLedger /\ [][Edit]_vars

\* Concurrent sessions: updates run statement by statement on their connection
\* while the committed store stays readable; SQLite admits one writer at a time.
Sessions ==
    \/ \E t \in AddForms :
          /\ sqlite_sequence.actual_transactions < SessionTxns
          /\ AddTransaction(t)
    \/ \E id \in DOMAIN actual_transactions : DeleteTransaction(id)
    \/ \E id \in DOMAIN actual_transactions, t \in UpdateForms : UpdateBegin(id, t)
    \/ UpdateRewrite
    \/ UpdateReapply
    \/ UpdateCommit
    \/ UpdateFail

SpecSessions == InitLedger /\ [][Sessions]_vars

\* The script runs that get from their SELECT to a button.
SelectionRuns == 1

\* Two sessions on the transactions page: one whose runs are atomic, and one
\* whose runs are overtaken between their SELECT and their button.
Overtaken ==
    \/ \E t \in AddForms :
          /\ sqlite_sequence.actual_transactions < SessionTxns
          /\ AddTransaction(t)
    \/ \E id \in DOMAIN actual_transactions, t \in UpdateForms : UpdateTransaction(id, t)
    \/ \E id \in DOMAIN actual_transactions : DeleteTransaction(id)
    \/ /\ selection.runs < SelectionRuns
       /\ FetchTransactions
    \/ RunEnds
    \/ \E id \in DOMAIN selection.transactions : DeleteSelected(id)
    \/ \E id \in DOMAIN selection.transactions, t \in UpdateForms : UpdateSelected(id, t)

SpecOvertaken == InitLedger /\ [][Overtaken]_vars

\* The ids of the transactions of a run in which statements raise.
FaultTxnIds == {1}

\* The operations on actual transactions, any of which may raise.
Faulty ==
    \/ \E t \in AddForms :
          /\ sqlite_sequence.actual_transactions + 1 \in FaultTxnIds
          /\ AddTransaction(t)
    \/ \E t \in AddForms : AddTransactionRaises(t)
    \/ \E id \in DOMAIN actual_transactions : DeleteTransaction(id)
    \/ \E id \in DOMAIN actual_transactions : DeleteTransactionRaises(id)
    \/ \E id \in DOMAIN actual_transactions, t \in UpdateForms : UpdateBegin(id, t)
    \/ UpdateRewrite
    \/ UpdateReapply
    \/ UpdateCommit
    \/ UpdateFail
    \/ \E csv \in CsvFiles, typing \in ImportTypings, link \in ImportLinks :
          \E faults \in [1..Len(csv) -> RowFaults] :
              /\ sqlite_sequence.actual_transactions + Len(csv) \in FaultTxnIds
              /\ ImportTransactionsOrRaise(csv, typing[1], typing[2], link, faults)

SpecFaults == InitLedger /\ [][Faulty]_vars

\* What the account and card forms of the application runs are filled with.
CardBalancesTyped == {0}
CardUpdatesTyped == {50}
CreditLimitsTyped == {2000}

\* Every page of the application.
Next ==
    \/ \E b \in OpeningBalances :
          /\ sqlite_sequence.bank_accounts + 1 \in AppAccountIds
          /\ AddAccount(b)
    \/ \E id \in DOMAIN bank_accounts, b \in BalancesTyped : UpdateAccount(id, b)
    \/ \E id \in DOMAIN bank_accounts : DeleteAccount(id)
    \/ \E b \in CardBalancesTyped, l \in CreditLimitsTyped :
          /\ sqlite_sequence.credit_cards + 1 \in AppCardIds
          /\ AddCard(b, b, l)
    \/ \E id \in DOMAIN credit_cards, b \in CardUpdatesTyped, l \in CreditLimitsTyped :
          UpdateCard(id, b, b, l)
    \/ \E id \in DOMAIN credit_cards : DeleteCard(id)
    \/ \E r \in RuleForms :
          /\ sqlite_sequence.recurring_transactions + 1 \in AppRuleIds
          /\ AddRule(r)
    \/ \E id \in DOMAIN recurring_transactions, r \in RuleForms : UpdateRule(id, r)
    \/ \E id \in DOMAIN recurring_transactions : DeleteRule(id)
    \/ \E t \in AddForms :
          /\ sqlite_sequence.actual_transactions + 1 \in AppTxnIds
          /\ AddTransaction(t)
    \/ \E id \in DOMAIN actual_transactions, t \in UpdateForms : UpdateTransaction(id, t)
    \/ \E id \in DOMAIN actual_transactions : DeleteTransaction(id)
    \/ \E csv \in CsvFiles, typing \in ImportTypings, link \in ImportLinks :
          /\ sqlite_sequence.actual_transactions + Len(csv) \in AppTxnIds
          /\ ImportTransactions(csv, typing[1], typing[2], link)

Spec == Init /\ [][Next]_vars

\* The pages of the prototype.
Prototype ==
    \/ \E id \in bank_account_options, b \in OpeningBalances \cup BalancesTyped :
          /\ id = NULL => sqlite_sequence.bank_accounts + 1 \in LedgerAccountIds
          /\ cash_flow_manage_bank_accounts(id, b)
    \/ \E id \in DOMAIN bank_accounts : cash_flow_display_bank_accounts(id)

SpecPrototype == Init /\ [][Prototype]_vars

\* The days the forecast is looked at, and the rules and accounts in the store
\* when it is.
ForecastToday == {Date(2024, 1, 15), Date(2024, 11, 30)}
ForecastStartDates == {Date(2024, 1, 1), Date(2024, 2, 15), Date(2024, 3, 15),
                       Date(2023, 6, 1)}
ForecastEndDates == {NoDate, Date(2024, 6, 30)}
ForecastFirstRules ==
    { Rule(200, type, frequency, start_date, end_date, RulePaymentLink("Other", NULL, NULL),
           TRUE) :
        type \in TransactionTypes, frequency \in Frequencies,
        start_date \in ForecastStartDates, end_date \in ForecastEndDates }
ForecastSecondRules ==
    { Rule(100, "income", "weekly", Date(2023, 6, 1), NoDate,
           RulePaymentLink("Other", NULL, NULL), FALSE),
      Rule(100, "income", "monthly", Date(2024, 4, 1), NoDate,
           RulePaymentLink("Other", NULL, NULL), TRUE) }
ForecastRuleTables ==
    {<<r>> : r \in ForecastFirstRules}
        \cup {<<r, q>> : r \in ForecastFirstRules, q \in ForecastSecondRules}
ForecastAccountTables ==
    { <<[balance |-> 1000, inexact |-> FALSE]>>,
      <<[balance |-> 600, inexact |-> FALSE], [balance |-> -200, inexact |-> FALSE]>>,
      <<[balance |-> -100, inexact |-> FALSE]>> }

\* A store with accounts and rules, on some day of 2024.
InitForecast ==
    /\ bank_accounts \in ForecastAccountTables
    /\ credit_cards = Empty
    /\ recurring_transactions \in ForecastRuleTables
    /\ actual_transactions = Empty
    /\ sqlite_sequence = [bank_accounts |-> Len(bank_accounts), credit_cards |-> 0,
                          recurring_transactions |-> Len(recurring_transactions),
                          actual_transactions |-> 0]
    /\ conn = Idle
    /\ opening = BalancesOf(Money(bank_accounts, credit_cards))
    /\ last = Did("init", 0)
    /\ \E today \in ForecastToday : forecast = NoForecast(today)
    /\ spending = NoSpending
    /\ selection = NoSelection

\* Looking at the forecast, at any horizon the slider offers.
Forecasts == \E forecast_months \in 1..MaxForecastMonths : ShowForecast(forecast_months)

SpecForecast == InitForecast /\ [][Forecasts]_vars

\* The months the spending tab is opened for, and the rules and transactions
\* in the store when it is.
SpendingMonths == {Date(2024, 3, 20), Date(2024, 12, 5)}
SpendingStartDates == {Date(2024, 1, 1), Date(2024, 3, 15), Date(2024, 3, 31),
                       Date(2024, 4, 1), Date(2024, 12, 31)}
SpendingEndDates == {NoDate, Date(2024, 2, 29), Date(2024, 3, 1)}
SpendingAmounts == {100, 1500}
SpendingFirstRules ==
    { CategorizedRule(Rule(amount, "expense", frequency, start_date, end_date,
                           RulePaymentLink("Other", NULL, NULL), TRUE), "Housing") :
        amount \in SpendingAmounts, frequency \in Frequencies,
        start_date \in SpendingStartDates, end_date \in SpendingEndDates }
SpendingSecondRules ==
    { CategorizedRule(Rule(100, "income", "monthly", Date(2024, 1, 1), NoDate,
                           RulePaymentLink("Other", NULL, NULL), TRUE), "Salary"),
      CategorizedRule(Rule(100, "expense", "monthly", Date(2024, 1, 1), NoDate,
                           RulePaymentLink("Other", NULL, NULL), FALSE), "Food"),
      CategorizedRule(Rule(100, "expense", "weekly", Date(2024, 1, 1), NoDate,
                           RulePaymentLink("Other", NULL, NULL), TRUE), "Food"),
      CategorizedRule(Rule(100, "expense", "quarterly", Date(2024, 1, 1), NoDate,
                           RulePaymentLink("Other", NULL, NULL), TRUE), "Housing") }
\* Three expense rules counted every month, in two categories.
SpendingThreeRules ==
    <<CategorizedRule(Rule(1500, "expense", "monthly", Date(2024, 1, 1), NoDate,
                           RulePaymentLink("Other", NULL, NULL), TRUE), "Housing"),
      CategorizedRule(Rule(100, "expense", "weekly", Date(2024, 1, 1), NoDate,
                           RulePaymentLink("Other", NULL, NULL), TRUE), "Food"),
      CategorizedRule(Rule(100, "expense", "quarterly", Date(2024, 1, 1), NoDate,
                           RulePaymentLink("Other", NULL, NULL), TRUE), "Housing")>>
SpendingRuleTables ==
    {<<r>> : r \in SpendingFirstRules}
        \cup {<<r, q>> : r \in SpendingFirstRules, q \in SpendingSecondRules}
        \cup {SpendingThreeRules}
SpendingTxnTables ==
    LET other == AddPaymentLink("Other", NULL, NULL)
    IN  { <<>>,
          <<DatedTxn(Txn(1400, "expense", other), Date(2024, 3, 10), "Housing")>>,
          <<DatedTxn(Txn(1400, "expense", other), Date(2024, 3, 31), "Housing"),
            DatedTxn(Txn(50, "expense", other), Date(2024, 3, 1), "Food")>>,
          <<DatedTxn(Txn(700, "income", other), Date(2024, 3, 10), "Salary"),
            DatedTxn(Txn(30, "expense", other), Date(2024, 4, 1), "Food"),
            DatedTxn(Txn(20, "expense", other), Date(2024, 12, 31), "Housing")>>,
          <<DatedTxn(Txn(1400, "expense", other), Date(2024, 3, 10), "Housing"),
            DatedTxn(Txn(50, "expense", other), Date(2024, 3, 1), "Food"),
            DatedTxn(Txn(77, "expense", other), Date(2024, 3, 31), "Housing")>> }

\* A store with rules and transactions.
InitSpending ==
    /\ bank_accounts = <<[balance |-> 1000, inexact |-> FALSE]>>
    /\ credit_cards = Empty
    /\ recurring_transactions \in SpendingRuleTables
    /\ actual_transactions \in SpendingTxnTables
    /\ sqlite_sequence = [bank_accounts |-> 1, credit_cards |-> 0,
                          recurring_transactions |-> Len(recurring_transactions),
                          actual_transactions |-> Len(actual_transactions)]
    /\ conn = Idle
    /\ opening = BalancesOf(Money(bank_accounts, credit_cards))
    /\ last = Did("init", 0)
    /\ forecast = NoForecast(Date(2024, 1, 15))
    /\ spending = NoSpending
    /\ selection = NoSelection

\* Looking at a month, in aggregate or by category.
Spendings ==
    \E month_year \in SpendingMonths, category_filter \in {"All Categories", "By Category"},
       on_empty \in ApplyOnEmptyFrame :
        ShowSpending(month_year, category_filter, on_empty)

SpecSpending == InitSpending /\ [][Spendings]_vars

\* Frequencies no form of the application offers: a rule carrying one was put
\* into the database file by another program (the prototype's schema names
\* 'biweekly').
ForeignFrequencies == {"biweekly", "daily"}
ForeignRules ==
    { CategorizedRule(Rule(amount, type, frequency, start_date, end_date,
                           RulePaymentLink("Other", NULL, NULL), TRUE), "Housing") :
        amount \in SpendingAmounts, type \in TransactionTypes,
        frequency \in ForeignFrequencies,
        start_date \in {Date(2024, 1, 1), Date(2024, 2, 15)},
        end_date \in ForecastEndDates }

\* A store with one such rule.
InitForeign ==
    /\ bank_accounts \in ForecastAccountTables
    /\ credit_cards = Empty
    /\ \E r \in ForeignRules : recurring_transactions = <<r>>
    /\ \E t \in SpendingTxnTables : Len(t) <= 1 /\ actual_transactions = t
    /\ sqlite_sequence = [bank_accounts |-> Len(bank_accounts), credit_cards |-> 0,
                          recurring_transactions |-> 1,
                          actual_transactions |-> Len(actual_transactions)]
    /\ conn = Idle
    /\ opening = BalancesOf(Money(bank_accounts, credit_cards))
    /\ last = Did("init", 0)
    /\ forecast = NoForecast(Date(2024, 1, 15))
    /\ spending = NoSpending
    /\ selection = NoSelection

\* Looking at the forecast and at the spending of a month.
Visualizations ==
    \/ Forecasts
    \/ \E month_year \in {Date(2024, 2, 10), Date(2024, 3, 20)},
          category_filter \in {"All Categories", "By Category"},
          on_empty \in ApplyOnEmptyFrame :
            ShowSpending(month_year, category_filter, on_empty)

SpecForeign == InitForeign /\ [][Visualizations]_vars

\* What the recurring-transaction forms are filled with while the forecast and
\* the month's spending are looked at.
PlanningRuleForms ==
    { CategorizedRule(Rule(200, type, "monthly", Date(2024, 1, 1), NoDate,
                           RulePaymentLink(pm, a, c), TRUE), "Housing") :
        type \in TransactionTypes, pm \in PaymentMethods,
        a \in bank_account_options, c \in credit_card_options }
PlanningRuleIds == {1}
PlanningHorizons == {1, 3}
PlanningCardBalances == {0, 50}
PlanningTxnTables ==
    { <<>>,
      <<DatedTxn(Txn(30, "expense", AddPaymentLink("Credit Card", NULL, 1)),
                 Date(2024, 1, 10), "Housing")>> }

\* A store with two accounts, a card and perhaps a transaction, and no rule
\* yet.
InitPlanning ==
    /\ bank_accounts = <<[balance |-> 600, inexact |-> FALSE],
                         [balance |-> 400, inexact |-> FALSE]>>
    /\ \E b \in PlanningCardBalances :
          credit_cards = <<[current_balance |-> b, statement_balance |-> b,
                            credit_limit |-> 2000, inexact |-> FALSE]>>
    /\ recurring_transactions = Empty
    /\ actual_transactions \in PlanningTxnTables
    /\ sqlite_sequence = [bank_accounts |-> 2, credit_cards |-> 1,
                          recurring_transactions |-> 0,
                          actual_transactions |-> Len(actual_transactions)]
    /\ conn = Idle
    /\ opening = BalancesOf(Money(bank_accounts, credit_cards))
    /\ last = Did("init", 0)
    /\ forecast = NoForecast(Date(2024, 1, 15))
    /\ spending = NoSpending
    /\ selection = NoSelection

\* The recurring-transaction page and the two read-only views.
Planning ==
    \/ \E r \in PlanningRuleForms :
          /\ sqlite_sequence.recurring_transactions + 1 \in PlanningRuleIds
          /\ AddRule(r)
    \/ \E id \in DOMAIN recurring_transactions, r \in PlanningRuleForms : UpdateRule(id, r)
    \/ \E id \in DOMAIN recurring_transactions : DeleteRule(id)
    \/ \E forecast_months \in PlanningHorizons : ShowForecast(forecast_months)
    \/ \E category_filter \in {"All Categories", "By Category"},
          on_empty \in ApplyOnEmptyFrame :
            ShowSpending(Date(2024, 1, 15), category_filter, on_empty)

SpecPlanning == InitPlanning /\ [][Planning]_vars

(* ================================ claims =============================== *)

RECURSIVE SumAmounts(_)
\* The sum of the amounts of the stored transactions with ids in S, exactly.
SumAmounts(S) ==
    IF S = {} THEN 0
    ELSE LET id == CHOOSE x \in S : TRUE
         IN  actual_transactions[id].amount + SumAmounts(S \ {id})

RowsOf(type, field, id) ==
    {t \in DOMAIN actual_transactions :
        /\ actual_transactions[t].type = type
        /\ actual_transactions[t][field] = id}

\* Opening balance plus linked income minus linked expense, in exact arithmetic.
AccountLedger(a) ==
    opening.acct[a] + SumAmounts(RowsOf("income", "account_id", a))
                    - SumAmounts(RowsOf("expense", "account_id", a))

\* Opening balance plus linked expense, in exact arithmetic.
CardLedger(c) == opening.card[c] + SumAmounts(RowsOf("expense", "credit_card_id", c))

\* C1 as stated: after any sequence of actual-transaction operations every
\* account balance equals opening + linked income - linked expense and every
\* card balance equals opening + linked expense.
C1_BalancesEqualLedger ==
    /\ \A a \in DOMAIN bank_accounts : bank_accounts[a].balance = AccountLedger(a)
    /\ \A c \in DOMAIN credit_cards : credit_cards[c].current_balance = CardLedger(c)

\* C1 amended: the equalities hold for every account and card none of whose
\* balance updates had to be rounded.
C1_ExactBalancesEqualLedger ==
    /\ \A a \in DOMAIN bank_accounts :
          ~bank_accounts[a].inexact => bank_accounts[a].balance = AccountLedger(a)
    /\ \A c \in DOMAIN credit_cards :
          ~credit_cards[c].inexact => credit_cards[c].current_balance = CardLedger(c)

\* C1 witness: an update has run and two rows are stored, one of them linked to
\* an account whose balance never was rounded and moved off its opening value.
C1_Witness ==
    /\ last.op = "update"
    /\ Cardinality(DOMAIN actual_transactions) = 2
    /\ \E t \in DOMAIN actual_transactions :
          LET a == actual_transactions[t].account_id
          IN  /\ a # NULL
              /\ ~bank_accounts[a].inexact
              /\ bank_accounts[a].balance # opening.acct[a]

\* The signed change the effect table gives row t on account a / on card c.
EffectOnAccount(t, a) ==
    IF t.account_id # a THEN 0
    ELSE IF t.type = "income" THEN t.amount
    ELSE IF t.type = "expense" THEN -t.amount
    ELSE 0

EffectOnCard(t, c) ==
    IF t.credit_card_id = c /\ t.type = "expense" THEN t.amount ELSE 0

\* A transaction was added and deleted next.
AddedThenDeleted == last.op = "delete" /\ last.undone.valid

\* C2 as stated: adding T and then deleting T leaves every account balance and
\* every card balance exactly as it was before T was added.
C2_AddDeleteRestores ==
    AddedThenDeleted => Balances = BalancesOf(last.undone.db)

\* C2 amended: every balance is as it was, except where the balance with T's
\* effect applied was not representable and had to be rounded.
C2_AddDeleteRestoresIfExact ==
    AddedThenDeleted =>
        LET before == BalancesOf(last.undone.db)
            t == last.row
        IN  /\ \A a \in DOMAIN bank_accounts :
                  LET mid == before.acct[a] + EffectOnAccount(t, a)
                  IN  Fl(mid) = mid => bank_accounts[a].balance = before.acct[a]
            /\ \A c \in DOMAIN credit_cards :
                  LET mid == before.card[c] + EffectOnCard(t, c)
                  IN  Fl(mid) = mid => credit_cards[c].current_balance = before.card[c]

\* C2 witness: a transaction with an effect on an account was added and
\* deleted, and the balance in between was representable.
C2_Witness ==
    /\ AddedThenDeleted
    /\ \E a \in DOMAIN bank_accounts :
          LET mid == last.undone.db.bank_accounts[a].balance
                        + EffectOnAccount(last.row, a)
          IN  /\ EffectOnAccount(last.row, a) # 0
              /\ Fl(mid) = mid

\* C3: an update leaves the balances that deleting the old row and adding the
\* new one would leave, whatever the old and new kind, linkage and amount.
C3_UpdateIsReverseThenApply ==
    [][ last'.op = "update" =>
          LET old == actual_transactions[last'.id]
              new == actual_transactions'[last'.id]
              db == Money(bank_accounts, credit_cards)
          IN  BalancesOf(Money(bank_accounts', credit_cards'))
                = BalancesOf(AddApply(DeleteReverse(db, old), new)) ]_vars

\* C3 witness: an update has run and left a row linked to an account or a card
\* whose balance differs from its opening value.
C3_Witness ==
    /\ last.op = "update"
    /\ LET t == actual_transactions[last.id]
       IN  \/ t.account_id # NULL
              /\ bank_accounts[t.account_id].balance # opening.acct[t.account_id]
           \/ t.credit_card_id # NULL
              /\ credit_cards[t.credit_card_id].current_balance
                    # opening.card[t.credit_card_id]

\* C6 as stated: no stored transaction is an income linked to a credit card.
C6_NoIncomeOnCard ==
    \A t \in DOMAIN actual_transactions :
        ~(actual_transactions[t].type = "income"
            /\ actual_transactions[t].credit_card_id # NULL)

\* C8 as stated: every stored transaction and every stored rule has amount > 0.
C8_AmountsPositive ==
    /\ \A t \in DOMAIN actual_transactions : actual_transactions[t].amount > 0
    /\ \A r \in DOMAIN recurring_transactions : recurring_transactions[r].amount > 0

\* C4: while an update is in flight nothing of it is visible in the committed
\* store, and when it ends either nothing of it or all of it (the reversal,
\* the rewritten row, the new effect) becomes visible in one step.
C4_UpdateIsOneUnitOfWork ==
    [][ /\ conn'.pc # "idle" =>
              UNCHANGED <<bank_accounts, credit_cards, actual_transactions>>
        /\ (conn.pc # "idle" /\ conn'.pc = "idle") =>
              \/ UNCHANGED <<bank_accounts, credit_cards, actual_transactions>>
              \/ /\ conn.pc = "applied"
                 /\ actual_transactions' =
                        [actual_transactions EXCEPT ![conn.id] = conn.new]
                 /\ BalancesOf(Money(bank_accounts', credit_cards'))
                      = BalancesOf(UpdateApply(
                            UpdateReverse(Money(bank_accounts, credit_cards),
                                          conn.original), conn.new)) ]_vars

\* C4 witness: an update is in flight with the old effect reversed on its
\* connection, the new one not yet applied, and the committed balances differ
\* from the connection's.
C4_Witness ==
    /\ conn.pc \in {"reversed", "rewritten"}
    /\ BalancesOf(conn.db) # Balances

\* The balance of an account or card that exists before and after the step
\* differs.
BalanceChanged ==
    \/ \E a \in DOMAIN bank_accounts \cap DOMAIN bank_accounts' :
          bank_accounts'[a].balance # bank_accounts[a].balance
    \/ \E c \in DOMAIN credit_cards \cap DOMAIN credit_cards' :
          credit_cards'[c].current_balance # credit_cards[c].current_balance

\* The insert (manual or imported), update and delete of an actual transaction.
ReconcilerOps == {"add", "import", "update", "delete"}

\* C5 as stated: only the insert, update or delete of an actual transaction
\* changes the stored balance of an existing account or card.
C5_OnlyReconcilerChangesBalances ==
    [][ BalanceChanged => last'.op \in ReconcilerOps ]_vars

\* C5 amended: besides the reconciler, only the "Update Account" form changes
\* the balance of the selected account and only the "Update Credit Card" form
\* the current balance of the selected card.
C5_OnlyReconcilerAndUpdateForms ==
    [][ BalanceChanged =>
          \/ last'.op \in ReconcilerOps
          \/ /\ last'.op = "update_account"
             /\ credit_cards' = credit_cards
             /\ \A a \in DOMAIN bank_accounts \ {last'.id} :
                   bank_accounts'[a] = bank_accounts[a]
          \/ /\ last'.op = "update_card"
             /\ bank_accounts' = bank_accounts
             /\ \A c \in DOMAIN credit_cards \ {last'.id} :
                   credit_cards'[c] = credit_cards[c] ]_vars

\* C5 witness: the "Update Account" form has just been submitted for an account
\* a transaction is linked to, and the account no longer holds what its opening
\* balance and that transaction make.
C5_Witness ==
    /\ last.op = "update_account"
    /\ \E t \in DOMAIN actual_transactions :
          /\ actual_transactions[t].account_id = last.id
          /\ actual_transactions[t].type = "expense"
          /\ bank_accounts[last.id].balance
                # opening.acct[last.id] - actual_transactions[t].amount

\* C7: no stored transaction and no stored rule has both links set.
C7_NeverBothLinks ==
    /\ \A t \in DOMAIN actual_transactions :
          actual_transactions[t].account_id = NULL
              \/ actual_transactions[t].credit_card_id = NULL
    /\ \A r \in DOMAIN recurring_transactions :
          recurring_transactions[r].account_id = NULL
              \/ recurring_transactions[r].credit_card_id = NULL

\* C7 witness: a transaction linked to an account and a rule linked to a card
\* are stored while an account and a card are both on offer in the forms.
C7_Witness ==
    /\ DOMAIN bank_accounts # {} /\ DOMAIN credit_cards # {}
    /\ \E t \in DOMAIN actual_transactions : actual_transactions[t].account_id # NULL
    /\ \E r \in DOMAIN recurring_transactions :
          recurring_transactions[r].credit_card_id # NULL

\* Some stored transaction or rule is linked to account a / to card c.
HasLinkedRows(field, id) ==
    \/ \E t \in DOMAIN actual_transactions : actual_transactions[t][field] = id
    \/ \E r \in DOMAIN recurring_transactions : recurring_transactions[r][field] = id

MonthAfter(d, i) ==
    LET months == d.y * 12 + (d.m - 1) + i
    IN  Date(months \div 12, (months % 12) + 1, 1)

\* The last day of the calendar month of date d is before the first day of the
\* next month.
StartsByEndOf(start_date, month) == DateLT(start_date, MonthAfter(month, 1))

\* Eligibility of a rule for a target month (the month's first day).
Eligible(rule, month) ==
    /\ rule.is_active
    /\ StartsByEndOf(rule.start_date, month)
    /\ rule.end_date = NoDate \/ ~DateLT(rule.end_date, month)

\* firesInMonth of a rule for a target month.
FiresInMonth(rule, month) ==
    IF rule.frequency = "quarterly"
    THEN ((month.y - rule.start_date.y) * 12 + month.m - rule.start_date.m) % 3 = 0
    ELSE IF rule.frequency = "annually" THEN month.m = rule.start_date.m
    ELSE IF rule.frequency = "one-time"
    THEN month.y = rule.start_date.y /\ month.m = rule.start_date.m
    ELSE TRUE

\* What a firing rule contributes: the averaged monthly equivalent of a
\* smoothed frequency, the full amount of a discrete one.
Contribution(rule) ==
    IF rule.frequency = "semi-monthly" THEN Fl(2 * rule.amount)
    ELSE IF rule.frequency = "weekly" THEN FlQ(433 * rule.amount, 100)
    ELSE IF rule.frequency = "bi-weekly" THEN FlQ(217 * rule.amount, 100)
    ELSE rule.amount

RECURSIVE Projected(_, _, _)
\* The balance b carried into a month, with the contribution of every eligible
\* firing rule among ids added (income) or subtracted (expense), in row order.
Projected(b, ids, month) ==
    IF ids = {} THEN b
    ELSE LET id == CHOOSE x \in ids : \A z \in ids : x <= z
             rule == recurring_transactions[id]
             c == IF Eligible(rule, month) /\ FiresInMonth(rule, month)
                  THEN Contribution(rule) ELSE 0
         IN  Projected(Fl(IF rule.type = "income" THEN b + c ELSE b - c),
                       ids \ {id}, month)

\* C10 as stated: the projected balance of month i is that of month i-1 plus
\* the contributions of the eligible income rules firing in month i minus
\* those of the eligible expense rules firing in month i.
C10_ForecastRecurrence ==
    forecast.shown =>
        \A i \in 1..forecast.forecast_months :
            forecast.forecast_balances[i + 1]
                = Projected(forecast.forecast_balances[i], DOMAIN recurring_transactions,
                            MonthAfter(forecast.today, i))

\* What the forecaster counts for a rule in a forecast month.
Forecasted(rule, month) ==
    IF rule.is_active /\ ~Skipped(rule, month) THEN monthly_amount(rule, month) ELSE 0

RECURSIVE Applied(_, _, _)
\* The balance b with the amount c[id] of every rule id among ids added (income)
\* or subtracted (expense), in row order.
Applied(b, ids, c) ==
    IF ids = {} THEN b
    ELSE LET id == CHOOSE x \in ids : \A z \in ids : x <= z
         IN  Applied(Fl(IF recurring_transactions[id].type = "income"
                        THEN b + c[id] ELSE b - c[id]),
                     ids \ {id}, c)

\* The forecast shows, for every month i, the balance of month i-1 with the
\* amounts c(id, month i) of the rules applied.
ForecastApplies(c(_, _)) ==
    forecast.shown =>
        \A i \in 1..forecast.forecast_months :
            forecast.forecast_balances[i + 1]
                = Applied(forecast.forecast_balances[i], DOMAIN recurring_transactions,
                          [id \in DOMAIN recurring_transactions |->
                              c(id, MonthAfter(forecast.today, i))])

\* C11 as stated: the forecaster counts a rule in a target month exactly when
\* the rule is active, starts on or before the last day of that month and has
\* no end date or one on or after the first day of that month; what a counted
\* rule amounts to is left to the forecaster.
C11_ForecastEligibility ==
    LET c(id, month) ==
            IF Eligible(recurring_transactions[id], month)
            THEN monthly_amount(recurring_transactions[id], month) ELSE 0
    IN  ForecastApplies(c)

\* C12 as stated: a one-time rule contributes its full amount in the calendar
\* month of its start date, whatever the day, and nothing in any other month.
C12_OneTimeInStartMonth ==
    LET c(id, month) ==
            LET rule == recurring_transactions[id]
            IN  IF rule.frequency # "one-time" THEN Forecasted(rule, month)
                ELSE IF Eligible(rule, month) /\ month.y = rule.start_date.y
                            /\ month.m = rule.start_date.m
                THEN rule.amount ELSE 0
    IN  ForecastApplies(c)

\* C13 as stated: a quarterly rule contributes its full amount in exactly the
\* eligible target months a multiple of 3 whole months after the month of its
\* start date, whatever the day, and 0 in all others.
C13_QuarterlyEveryThirdMonth ==
    LET c(id, month) ==
            LET rule == recurring_transactions[id]
                distance == (month.y - rule.start_date.y) * 12 + month.m - rule.start_date.m
            IN  IF rule.frequency # "quarterly" THEN Forecasted(rule, month)
                ELSE IF Eligible(rule, month) /\ distance % 3 = 0
                THEN rule.amount ELSE 0
    IN  ForecastApplies(c)

\* C14 as stated: an annual rule with no end date contributes its full amount
\* in every target month on or after the month of its start with the start
\* date's month of the year, and 0 in every other month.
C14_AnnuallySameMonth ==
    LET c(id, month) ==
            LET rule == recurring_transactions[id]
            IN  IF rule.frequency # "annually" \/ rule.end_date # NoDate
                THEN Forecasted(rule, month)
                ELSE IF rule.is_active /\ StartsByEndOf(rule.start_date, month)
                            /\ month.m = rule.start_date.m
                THEN rule.amount ELSE 0
    IN  ForecastApplies(c)

\* C20 as stated: a monthly, semi-monthly, weekly or bi-weekly rule contributes
\* its averaged monthly equivalent in every target month it is eligible for.
C20_SmoothedEveryEligibleMonth ==
    LET c(id, month) ==
            LET rule == recurring_transactions[id]
            IN  IF rule.frequency \notin {"monthly", "semi-monthly", "weekly", "bi-weekly"}
                THEN Forecasted(rule, month)
                ELSE IF Eligible(rule, month) THEN Contribution(rule) ELSE 0
    IN  ForecastApplies(c)

RECURSIVE ExactTotal(_)
\* The sum of the balances of the accounts ids.
ExactTotal(ids) ==
    IF ids = {} THEN 0
    ELSE LET id == CHOOSE x \in ids : TRUE
         IN  bank_accounts[id].balance + ExactTotal(ids \ {id})

\* C19: a forecast over N months, N in 1..12, shows exactly N+1 pairs; pair 0
\* is the first day of the current month with the sum of the account balances,
\* and pair i is dated the first day of the month i months later.
C19_ForecastPairs ==
    forecast.shown =>
        /\ forecast.forecast_months \in 1..12
        /\ Len(forecast.forecast_dates) = forecast.forecast_months + 1
        /\ Len(forecast.forecast_balances) = forecast.forecast_months + 1
        /\ forecast.forecast_dates[1] = Date(forecast.today.y, forecast.today.m, 1)
        /\ forecast.forecast_balances[1] = ExactTotal(DOMAIN bank_accounts)
        /\ \A i \in 1..forecast.forecast_months :
              forecast.forecast_dates[i + 1] = MonthAfter(forecast.today, i)

\* C19 witness: a forecast over 12 months looked at in November 2024 over two
\* accounts: 13 pairs, the last dated in November 2025.
C19_Witness ==
    /\ forecast.shown
    /\ forecast.forecast_months = 12
    /\ forecast.today = Date(2024, 11, 30)
    /\ Len(forecast.forecast_dates) = 13
    /\ forecast.forecast_dates[2] = Date(2024, 12, 1)
    /\ forecast.forecast_dates[3] = Date(2025, 1, 1)
    /\ forecast.forecast_dates[13] = Date(2025, 11, 1)
    /\ Len(bank_accounts) = 2
    /\ forecast.forecast_balances[1] = 400

\* The value v is the rational p/q within rounding: not further from it than
\* half the spacing of the representable values there.
WithinRounding(v, p, q) == 2 * Abs(q * v - p) <= q * Quantum(Abs(p), q, 1)

\* C15: the aggregator's monthly equivalent of every rule it counts follows the
\* frequency table, within rounding: amount, 2 x amount, 4.33 x amount,
\* 2.17 x amount, amount / 3, amount / 12 and, for a one-time rule, the amount
\* if the start date lies inside the target month and 0 otherwise.
C15_MonthlyEquivalentTable ==
    spending.status = "shown" =>
        \A r \in DOMAIN spending.monthly_amount :
            LET rule == recurring_transactions[r]
                v == spending.monthly_amount[r]
                inside == /\ rule.start_date.y = spending.month_year.y
                          /\ rule.start_date.m = spending.month_year.m
            IN  /\ rule.frequency = "monthly" => v = rule.amount
                /\ rule.frequency = "semi-monthly" => WithinRounding(v, 2 * rule.amount, 1)
                /\ rule.frequency = "weekly" => WithinRounding(v, 433 * rule.amount, 100)
                /\ rule.frequency = "bi-weekly" => WithinRounding(v, 217 * rule.amount, 100)
                /\ rule.frequency = "quarterly" => WithinRounding(v, rule.amount, 3)
                /\ rule.frequency = "annually" => WithinRounding(v, rule.amount, 12)
                /\ rule.frequency = "one-time" => v = IF inside THEN rule.amount ELSE 0

\* C15 witness: the month of March 2024 shown over an annual rule and a weekly
\* rule of amount 100: 8 (8.33) and 433.
C15_Witness ==
    /\ spending.status = "shown"
    /\ spending.month_year = Date(2024, 3, 20)
    /\ Len(recurring_transactions) = 2
    /\ recurring_transactions[1].frequency = "annually"
    /\ recurring_transactions[1].amount = 100
    /\ recurring_transactions[2].frequency = "weekly"
    /\ spending.monthly_amount = <<8, 433>>

\* The difference diff and the percent difference pct (in hundredths of a
\* percent) shown for the amounts actual and expected are actual - expected and
\* diff / expected x 100, within rounding, and the percent is 0 when expected
\* is zero.
DifferenceOf(actual, expected, diff, pct) ==
    /\ WithinRounding(diff, actual - expected, 1)
    /\ expected = 0 => pct = 0
    /\ expected # 0 => 2 * Abs(pct * expected - 10000 * diff) <= Abs(expected)

C16_ByCategoryShown ==
    /\ spending.status = "shown"
    /\ spending.category_filter = "By Category"
    /\ Len(spending.merged_categories) = 2
    /\ spending.merged_categories[1]
          = [category |-> "Housing", expected |-> 1500, actual |-> 1400,
             difference |-> -100, percent_diff |-> -667]
    /\ spending.merged_categories[2]
          = [category |-> "Food", expected |-> 0, actual |-> 50,
             difference |-> 50, percent_diff |-> 0]

\* A month in aggregate with transactions and an expected total of zero.
C16_NothingExpectedShown ==
    /\ spending.status = "shown"
    /\ spending.category_filter = "All Categories"
    /\ spending.expected_total = 0
    /\ spending.actual_total > 0
    /\ spending.monthly_amount # <<>>

RECURSIVE SumEffects(_, _, _, _)
\* The sum of Effect(row, id) over the rows S of the table rows.
SumEffects(Effect(_, _), rows, S, id) ==
    IF S = {} THEN 0
    ELSE LET t == CHOOSE x \in S : TRUE
         IN  Effect(rows[t], id) + SumEffects(Effect, rows, S \ {t}, id)

\* C18 as stated: no step commits a change of the transaction rows without the
\* balance effect of exactly that change, or a balance change without its row
\* change, whether the unit ran to its end or one of its statements raised;
\* balances that had to be rounded are left aside.
C18_NoPartialSuccess ==
    [][ /\ \A a \in DOMAIN bank_accounts :
              ~bank_accounts'[a].inexact =>
                  bank_accounts'[a].balance - bank_accounts[a].balance
                      = SumEffects(EffectOnAccount, actual_transactions',
                                   DOMAIN actual_transactions', a)
                          - SumEffects(EffectOnAccount, actual_transactions,
                                       DOMAIN actual_transactions, a)
        /\ \A c \in DOMAIN credit_cards :
              ~credit_cards'[c].inexact =>
                  credit_cards'[c].current_balance - credit_cards[c].current_balance
                      = SumEffects(EffectOnCard, actual_transactions',
                                   DOMAIN actual_transactions', c)
                          - SumEffects(EffectOnCard, actual_transactions,
                                       DOMAIN actual_transactions, c) ]_vars

\* monthlyEquivalent of a rule for a target month.
MonthlyEquivalent(rule, month) ==
    IF rule.frequency = "quarterly" THEN FlQ(rule.amount, 3)
    ELSE IF rule.frequency = "annually" THEN FlQ(rule.amount, 12)
    ELSE IF rule.frequency = "one-time"
    THEN IF rule.start_date.y = month.y /\ rule.start_date.m = month.m
         THEN rule.amount ELSE 0
    ELSE Contribution(rule)

\* The rules the expected spending of a target month is made of.
ExpectedRules(month) ==
    {r \in DOMAIN recurring_transactions :
        /\ Eligible(recurring_transactions[r], month)
        /\ recurring_transactions[r].type = "expense"}

\* The transactions the actual spending of a target month is made of.
ActualRows(month) ==
    {t \in DOMAIN actual_transactions :
        /\ actual_transactions[t].type = "expense"
        /\ actual_transactions[t].date.y = month.y
        /\ actual_transactions[t].date.m = month.m}

RECURSIVE ExactSum(_, _)
\* The sum of f over S.
ExactSum(f, S) ==
    IF S = {} THEN 0
    ELSE LET x == CHOOSE y \in S : TRUE IN f[x] + ExactSum(f, S \ {x})

\* The totals a month shown in aggregate carries are those of the spec.
AggregateTotals ==
    LET month == MonthAfter(spending.month_year, 0)
    IN  /\ DOMAIN spending.monthly_amount = ExpectedRules(month)
        /\ WithinRounding(spending.expected_total,
                          ExactSum([r \in ExpectedRules(month) |->
                                       MonthlyEquivalent(recurring_transactions[r], month)],
                                   ExpectedRules(month)), 1)
        /\ WithinRounding(spending.actual_total,
                          ExactSum([t \in ActualRows(month) |-> actual_transactions[t].amount],
                                   ActualRows(month)), 1)

\* C21 as stated: for a month looked at in aggregate, the aggregator has an
\* expected spending, the sum of monthlyEquivalent over exactly the active
\* expense rules eligible for the month, and an actual spending, the sum of the
\* amounts of exactly the expense transactions dated in the month; with
\* neither rule nor transaction there is nothing to show.
C21_ExpectedAndActual ==
    spending.category_filter = "All Categories" =>
        LET month == MonthAfter(spending.month_year, 0)
        IN  IF ExpectedRules(month) = {} /\ ActualRows(month) = {}
            THEN spending.status = "no data"
            ELSE spending.status = "shown" /\ AggregateTotals

\* Whenever a month is shown in aggregate its totals are those of the spec.
C21_TotalsWhenShown ==
    spending.status = "shown" /\ spending.category_filter = "All Categories"
        => AggregateTotals

\* C22: the outlook of a forecast is one of alert, declining and positive:
\* alert exactly when some balance of the sequence is below 0, otherwise
\* declining exactly when the final balance is below the starting balance,
\* otherwise positive.
C22_OutlookClasses ==
    forecast.shown =>
        LET balances == forecast.forecast_balances
            negative == \E i \in DOMAIN balances : balances[i] < 0
            falling == balances[Len(balances)] < balances[1]
        IN  /\ forecast.outlook \in {"alert", "declining", "positive"}
            /\ forecast.outlook = "alert" <=> negative
            /\ forecast.outlook = "declining" <=> ~negative /\ falling
            /\ forecast.outlook = "positive" <=> ~negative /\ ~falling

\* C22 witness: an alert for a forecast that ends above zero and above its
\* start, one of its months having been below zero.
C22_Witness ==
    /\ forecast.shown
    /\ forecast.outlook = "alert"
    /\ forecast.forecast_balances[Len(forecast.forecast_balances)] >= 0
    /\ forecast.forecast_balances[Len(forecast.forecast_balances)]
          > forecast.forecast_balances[1]

\* A forecast whose outlook is declining, and one whose outlook is positive.
C22_DecliningShown == forecast.shown /\ forecast.outlook = "declining"
C22_PositiveShown == forecast.shown /\ forecast.outlook = "positive"

\* C23: adding, updating or deleting a recurring transaction, and looking at
\* the month's spending or at the balance forecast, change no balance of an
\* account or a card and no stored actual transaction.
C23_RulesAndViewsChangeNoBalance ==
    [][/\ bank_accounts' = bank_accounts
       /\ credit_cards' = credit_cards
       /\ actual_transactions' = actual_transactions]_vars

\* C23 witness: a rule linked to the card was added and deleted again, and
\* the forecast and the month's spending were shown for a store holding a
\* transaction.
C23_Witness ==
    /\ last.op = "delete_rule"
    /\ forecast.shown
    /\ spending.status = "shown"
    /\ actual_transactions # Empty
    /\ credit_cards[1].current_balance = 50

\* The step adds one actual transaction through the "Add Transaction" form.
AddsOne == last'.op = "add" /\ last'.id \notin DOMAIN actual_transactions

\* The accounts and cards whose balance the step changes.
ChangedBalances ==
    {<<"account", a>> : a \in {x \in DOMAIN bank_accounts :
                                  bank_accounts'[x].balance # bank_accounts[x].balance}}
      \cup {<<"card", c>> : c \in {x \in DOMAIN credit_cards :
                                  credit_cards'[x].current_balance
                                      # credit_cards[x].current_balance}}

C24_AccountExpenseAdded ==
    /\ last.op = "add"
    /\ actual_transactions[last.id].type = "expense"
    /\ actual_transactions[last.id].account_id # NULL
    /\ bank_accounts[actual_transactions[last.id].account_id].balance
          < last.pre.db.bank_accounts[actual_transactions[last.id].account_id].balance
C24_AccountIncomeAdded ==
    /\ last.op = "add"
    /\ actual_transactions[last.id].type = "income"
    /\ actual_transactions[last.id].account_id # NULL
    /\ bank_accounts[actual_transactions[last.id].account_id].balance
          > last.pre.db.bank_accounts[actual_transactions[last.id].account_id].balance

\* The step is the button's branch of a run that fetched its rows earlier.
Submits == selection.pc = "fetched" /\ selection'.pc = "none" /\ last' # last

\* C25: a delete or an update submitted from rows fetched earlier changes no
\* balance, or reverses exactly the effect the store holds for the
\* transaction now (and, for an update, applies the new row's effect): never
\* the effect of a row that is no longer stored.
C25_ReversedAtMostOnce ==
    [][ Submits =>
          LET id == last'.id
              db == Money(bank_accounts, credit_cards)
              after == BalancesOf(Money(bank_accounts', credit_cards'))
          IN  \/ after = BalancesOf(db)
              \/ /\ id \in DOMAIN actual_transactions
                 /\ IF last'.op = "delete"
                    THEN after = BalancesOf(DeleteReverse(db, actual_transactions[id]))
                    ELSE after = BalancesOf(UpdateApply(
                                     UpdateReverse(db, actual_transactions[id]),
                                     actual_transactions'[id])) ]_vars

\* A delete was submitted from fetched rows after another session had
\* deleted the transaction, and a balance is off its opening value with no
\* transaction stored.
C25_EffectReversedTwice ==
    /\ last.op = "delete"
    /\ selection.pc = "none"
    /\ selection.runs > 0
    /\ actual_transactions = Empty
    /\ \E a \in DOMAIN bank_accounts :
          ~bank_accounts[a].inexact /\ bank_accounts[a].balance # opening.acct[a]

\* C26: in every reachable state, the account link and the card link of every
\* stored actual transaction and of every stored rule is null or names an
\* account or card that is in the store.
C26_LinksReferToStoredRows ==
    /\ \A t \in DOMAIN actual_transactions :
          /\ actual_transactions[t].account_id \in DOMAIN bank_accounts \cup {NULL}
          /\ actual_transactions[t].credit_card_id \in DOMAIN credit_cards \cup {NULL}
    /\ \A r \in DOMAIN recurring_transactions :
          /\ recurring_transactions[r].account_id \in DOMAIN bank_accounts \cup {NULL}
          /\ recurring_transactions[r].credit_card_id \in DOMAIN credit_cards \cup {NULL}

\* C26 witness: the delete of a card was asked for while a transaction is
\* linked to it and a rule is linked to an account, and all of them are stored.
C26_Witness ==
    /\ last.op = "delete_card_refused"
    /\ \E t \in DOMAIN actual_transactions :
          actual_transactions[t].credit_card_id = last.id
    /\ \E r \in DOMAIN recurring_transactions :
          recurring_transactions[r].account_id \in DOMAIN bank_accounts

\* An account was deleted after the last row linked to it had gone.
C26_AccountDeletedOnceUnlinked ==
    /\ last.op = "delete_account"
    /\ sqlite_sequence.actual_transactions > 0
    /\ DOMAIN bank_accounts = {}

\* The step adds transaction 2 right after transaction 1 was added to a store
\* without transactions.
AddsSecond == last.op = "add" /\ last.id = 1 /\ last'.op = "add" /\ last'.id = 2

\* The balances the effect table gives when first t and then u is added to a
\* store with the balances b, each sum stored as a float.
InOrder(b, t, u) ==
    [acct |-> [a \in DOMAIN b.acct |->
                  Fl(Fl(b.acct[a] + EffectOnAccount(t, a)) + EffectOnAccount(u, a))],
     card |-> [c \in DOMAIN b.card |->
                  Fl(Fl(b.card[c] + EffectOnCard(t, c)) + EffectOnCard(u, c))]]

\* Each of the sums b + x, b + y and b + x + y is representable.
ExactSums(b, x, y) == Fl(b + x) = b + x /\ Fl(b + y) = b + y /\ Fl(b + x + y) = b + x + y

\* C27 as stated: adding two transactions in either order yields the same
\* balance for every account and every card.
C27_OrderIrrelevant ==
    [][ AddsSecond =>
          BalancesOf(Money(bank_accounts', credit_cards'))
              = InOrder(BalancesOf(last.pre.db), actual_transactions'[2],
                        actual_transactions'[1]) ]_vars

\* C27 amended: adding two transactions in either order yields the same
\* balance for every account and every card on which the sums of both orders
\* are representable; where a sum had to be rounded the orders can differ.
C27_OrderIrrelevantIfExact ==
    [][ AddsSecond =>
          LET before == BalancesOf(last.pre.db)
              t == actual_transactions'[1]
              u == actual_transactions'[2]
              other == InOrder(before, u, t)
          IN  /\ \A a \in DOMAIN bank_accounts :
                    ExactSums(before.acct[a], EffectOnAccount(t, a), EffectOnAccount(u, a))
                        => bank_accounts'[a].balance = other.acct[a]
              /\ \A c \in DOMAIN credit_cards :
                    ExactSums(before.card[c], EffectOnCard(t, c), EffectOnCard(u, c))
                        => credit_cards'[c].current_balance = other.card[c] ]_vars

\* C27 witness: an income of 2 and an expense of 200 on account 2 were added
\* one after the other, and the account holds the exact sum.
C27_Witness ==
    /\ last.op = "add" /\ last.id = 2
    /\ DOMAIN actual_transactions = {1, 2}
    /\ actual_transactions[1] = Txn(2, "income", AddPaymentLink("Bank Account", 2, NULL))
    /\ actual_transactions[2] = Txn(200, "expense", AddPaymentLink("Bank Account", 2, NULL))
    /\ bank_accounts[2].balance = opening.acct[2] + 2 - 200
    /\ ~bank_accounts[2].inexact

\* The rule is eligible for each of the 12 months forecast after today's.
EligibleAllYear(rule) == \A i \in 1..12 : Eligible(rule, MonthAfter(forecast.today, i))

\* No rule but r is eligible for any of the months forecast.
AloneInForecast(r) ==
    \A q \in DOMAIN recurring_transactions \ {r} :
        \A i \in 1..forecast.forecast_months :
            ~Eligible(recurring_transactions[q], MonthAfter(forecast.today, i))

\* C28 as stated: over 12 consecutive forecast months in all of which it is
\* eligible, a quarterly rule moves the projected balance by 4 x amount and an
\* annual rule by 1 x amount, which is 12 times the aggregator's monthly
\* equivalent of the rule (amount / 3, amount / 12, within rounding).
C28_YearOfDiscreteRule ==
    (forecast.shown /\ forecast.forecast_months = 12) =>
        \A r \in DOMAIN recurring_transactions :
            LET rule == recurring_transactions[r]
                times == IF rule.frequency = "quarterly" THEN 4 ELSE 1
                total == forecast.forecast_balances[13] - forecast.forecast_balances[1]
                monthly == calculate_monthly_amount(rule, forecast.today)
            IN  (/\ rule.frequency \in {"quarterly", "annually"}
                 /\ EligibleAllYear(rule)
                 /\ AloneInForecast(r)) =>
                    /\ total = IF rule.type = "income" THEN times * rule.amount
                               ELSE -(times * rule.amount)
                    /\ WithinRounding(monthly, times * rule.amount, 12)

\* A year was forecast over a quarterly rule that started before the first
\* month forecast, and the balance moved by 4 x amount.
C28_QuarterlyYearShown ==
    /\ forecast.shown /\ forecast.forecast_months = 12
    /\ \E r \in DOMAIN recurring_transactions :
          /\ recurring_transactions[r].frequency = "quarterly"
          /\ EligibleAllYear(recurring_transactions[r])
          /\ AloneInForecast(r)
          /\ Abs(forecast.forecast_balances[13] - forecast.forecast_balances[1])
                = 4 * recurring_transactions[r].amount

RECURSIVE RowsSum(_, _, _)
\* The sum of a column of the first n rows of merged_categories.
RowsSum(rows, column, n) ==
    IF n = 0 THEN 0 ELSE rows[n][column] + RowsSum(rows, column, n - 1)

\* A total and a sum of n terms agree up to the rounding of the additions that
\* made them.
SumsAgree(total, sum, n) == Abs(total - sum) <= n * Quantum(Abs(total), 1, 1)

\* The categories with an eligible expense rule or an expense transaction in
\* the month.
SpendingCategories(month) ==
    CategoriesOf(recurring_transactions, ExpectedRules(month))
        \cup CategoriesOf(actual_transactions, ActualRows(month))

\* The rows of a month shown by category are one for each of the month's
\* categories.
OneRowPerCategory(shown) ==
    LET rows == shown.merged_categories
    IN  /\ {rows[i].category : i \in DOMAIN rows}
              = SpendingCategories(MonthAfter(shown.month_year, 0))
        /\ \A i, j \in DOMAIN rows : rows[i].category = rows[j].category => i = j

\* The rows of a month shown by category add up to the totals of the same
\* month shown in aggregate.
RowsAddUp(aggregate, shown) ==
    LET rows == shown.merged_categories
        month == MonthAfter(shown.month_year, 0)
    IN  /\ SumsAgree(aggregate.expected_total, RowsSum(rows, "expected", Len(rows)),
                     Cardinality(ExpectedRules(month)))
        /\ SumsAgree(aggregate.actual_total, RowsSum(rows, "actual", Len(rows)),
                     Cardinality(ActualRows(month)))

\* The step shows by category the month that is on show in aggregate.
SameMonthByCategory ==
    /\ spending.status = "shown" /\ spending.category_filter = "All Categories"
    /\ spending'.status = "shown" /\ spending'.category_filter = "By Category"
    /\ spending'.month_year = spending.month_year

\* C29 as stated: when a month is looked at by category, every category with
\* an eligible expense rule or an expense transaction in the month has exactly
\* one row, and the rows' expected and actual amounts add up to the expected
\* and actual totals the aggregate view of the same month shows (up to the
\* rounding of the sums).
C29_CategoriesMatchAggregate ==
    [][ /\ spending'.category_filter = "By Category" =>
              /\ SpendingCategories(MonthAfter(spending'.month_year, 0)) # {}
                    => spending'.status = "shown"
              /\ spending'.status = "shown" => OneRowPerCategory(spending')
        /\ SameMonthByCategory => RowsAddUp(spending, spending') ]_vars

\* Whenever the month is shown by category, the rows are as C29 has them.
C29_MatchWhenShown ==
    [][ /\ (spending'.category_filter = "By Category" /\ spending'.status = "shown")
              => OneRowPerCategory(spending')
        /\ SameMonthByCategory => RowsAddUp(spending, spending') ]_vars

\* The rows of a month shown by category add up to the aggregate totals
\* exactly.
C29_RowsAddUpExactly ==
    [][ SameMonthByCategory =>
          LET rows == spending'.merged_categories
          IN  /\ spending.expected_total = RowsSum(rows, "expected", Len(rows))
              /\ spending.actual_total = RowsSum(rows, "actual", Len(rows)) ]_vars

\* March 2024 is shown by category with two rows over three rules and three
\* transactions.
C29_TwoCategoriesShown ==
    /\ spending.status = "shown" /\ spending.category_filter = "By Category"
    /\ Len(spending.merged_categories) = 2
    /\ Cardinality(ExpectedRules(MonthAfter(spending.month_year, 0))) = 3
    /\ Cardinality(ActualRows(MonthAfter(spending.month_year, 0))) = 3

\* What the claim lets the forecast depend on, of a rule: neither its links nor
\* its category.
ForecastInputs(rule) ==
    [amount |-> rule.amount, type |-> rule.type, frequency |-> rule.frequency,
     start_date |-> rule.start_date, end_date |-> rule.end_date,
     is_active |-> rule.is_active]

RECURSIVE FromInputs(_, _, _, _)
\* The balance b with what the forecaster counts for each of the inputs ids in
\* a month added (income) or subtracted (expense), in row order.
FromInputs(b, inputs, ids, month) ==
    IF ids = {} THEN b
    ELSE LET id == CHOOSE x \in ids : \A z \in ids : x <= z
             c == Forecasted(inputs[id], month)
         IN  FromInputs(Fl(IF inputs[id].type = "income" THEN b + c ELSE b - c),
                        inputs, ids \ {id}, month)

\* C30: the forecast shown is a function of the sum of the account balances,
\* the current month, the horizon and the rules' amount, kind, frequency, start
\* date, end date and activity alone: card balances, stored transactions and
\* the account or card a rule is linked to have no part in it.
C30_ForecastFromInputsAlone ==
    [][ (forecast' # forecast /\ forecast'.shown) =>
          LET inputs == [id \in DOMAIN recurring_transactions |->
                            ForecastInputs(recurring_transactions[id])]
              balances == forecast'.forecast_balances
          IN  /\ Len(balances) = forecast'.forecast_months + 1
              /\ balances[1] = SumBalances(bank_accounts, DOMAIN bank_accounts)
              /\ \A i \in 1..forecast'.forecast_months :
                    balances[i + 1] = FromInputs(balances[i], inputs, DOMAIN inputs,
                                                 MonthAfter(forecast.today, i)) ]_vars

\* C30 witness: with a balance on the card and a transaction stored, the
\* forecast over an expense rule linked to the card falls by the rule's amount
\* each month.
C30_Witness ==
    /\ forecast.shown /\ forecast.forecast_months = 3
    /\ credit_cards[1].current_balance = 50
    /\ actual_transactions # Empty
    /\ DOMAIN recurring_transactions = {1}
    /\ recurring_transactions[1].type = "expense"
    /\ recurring_transactions[1].credit_card_id = 1
    /\ forecast.forecast_balances = <<1000, 800, 600, 400>>

====
